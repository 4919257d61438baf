----------------------------- MODULE MCServers ------------------------------
(***************************************************************************)
(* Components whose properties are safety, on small instances, in one run: *)
(* "part" says which of them runs, the others stay in their initial        *)
(* states.  Main's sessions are extended, the others are instances, whose  *)
(* variables have names of their own where several use the same.           *)
(***************************************************************************)
EXTENDS MainSessions, TLC

VARIABLE part

sessions == vars

-----------------------------------------------------------------------------
\* Logins on Front.

CONSTANTS Account, FrontId, Player, MaxLogins
VARIABLES has2fa, open, disconnecting, task, entry, state, known, dropping, logins
VARIABLES toMain, toFront
VARIABLES connected, aid, loginTask, cached, isOnline, frontSid, reported, purge
front ==
    <<has2fa, open, disconnecting, task, entry, state, known, dropping, logins, toMain, toFront,
      connected, aid, loginTask, cached, isOnline, frontSid, reported, purge>>
Front == INSTANCE FrontLogin WITH
    Id <- FrontId, leaving <- disconnecting, socket <- connected, login <- loginTask,
    online <- isOnline

ASSUME FrontAssumption ==
    /\ None \notin Account /\ None \notin FrontId /\ None \notin Player
    /\ MaxLogins \in Nat

-----------------------------------------------------------------------------
\* Parties.
CONSTANTS PartyMember, Party, MaxMembers
VARIABLES online, partyOf, alive, members, leader, barred, limit, emptied, erased, freeParties
parties ==
    <<online, partyOf, alive, members, leader, barred, limit, emptied, erased, freeParties>>
Parties == INSTANCE Parties WITH Sid <- PartyMember, free <- freeParties

ASSUME PartiesAssumption ==
    /\ None \notin PartyMember /\ None \notin Party
    /\ MaxMembers \in Nat

\* Cast's copy of the rooms.
CONSTANTS Watcher, Room, Breaker, MaxLink
VARIABLES inRoom, live, freeRooms, listed, host, playing, breaking, erasedRoom, twice, link,
          castRooms, castMembers, castHost, castPlaying
mirror ==
    <<inRoom, live, freeRooms, listed, host, playing, breaking, erasedRoom, twice, link,
      castRooms, castMembers, castHost, castPlaying>>
Mirror == INSTANCE CastMirror WITH
    Player <- PartyMember, free <- freeRooms, members <- listed, erased <- erasedRoom

ASSUME MirrorAssumption == None \notin Room

-----------------------------------------------------------------------------
\* Main's plazas.

CONSTANTS PlazaSid, MaxPlaza, MaxPlayers, Nowhere, NoPlaza
VARIABLES plazaCounter, plazaKeys, players, plazaOnline, plazaId, inPlaza, making, bound, closing, left
plazas ==
    <<plazaCounter, plazaKeys, players, plazaOnline, plazaId, inPlaza, making, bound, closing, left>>
Plazas == INSTANCE Plazas WITH
    Sid <- PlazaSid, Idle <- NoPlaza, counter <- plazaCounter, alive <- plazaKeys,
    online <- plazaOnline

ASSUME PlazasAssumption == MaxPlaza \in Nat /\ {Nowhere, NoPlaza} \cap Nat = {}

-----------------------------------------------------------------------------
\* Friends and blocked players, and mails.

CONSTANTS Aid, MaxTasks
VARIABLES row, loaded, loading, present, list, shown, tasks
socials == <<row, loaded, loading, present, list, shown, tasks>>
Socials == INSTANCE Socials WITH online <- present

ASSUME SocialsAssumption == MaxTasks \in Nat

CONSTANTS NoAccount, MaxMail, MaxMailLogins
VARIABLES mailRow, last, data, sent, recv, here, mailLoaded, mailLoading, mailLogins, mailTasks
mails == <<mailRow, last, data, sent, recv, here, mailLoaded, mailLoading, mailLogins, mailTasks>>
Mail == INSTANCE Mailbox WITH
    Nobody <- NoAccount, MaxLogins <- MaxMailLogins, row <- mailRow, online <- here,
    loaded <- mailLoaded, loading <- mailLoading, logins <- mailLogins, tasks <- mailTasks

ASSUME MailAssumption ==
    /\ MaxMail \in Nat /\ MaxMailLogins \in Nat
    /\ NoAccount \notin Aid /\ None \notin Mail!MailRow

-----------------------------------------------------------------------------
MCInit ==
    /\ part \in {"sessions", "front", "parties", "mirror", "plazas", "socials", "mails"}
    /\ Init /\ Front!Init /\ Parties!Init /\ Mirror!Init
    /\ Plazas!Init /\ Socials!Init /\ Mail!Init
    /\ part # "front" => has2fa = {}
    /\ part # "mails" => last = 0

arriving == <<sessions, front>>
together == <<parties, mirror>>
outside == <<plazas, socials, mails>>

SessionsNext == part = "sessions" /\ Next /\ UNCHANGED <<part, front, together, outside>>
FrontNext    == part = "front" /\ Front!Next /\ UNCHANGED <<part, sessions, together, outside>>
PartiesNext  == part = "parties" /\ Parties!Next /\ UNCHANGED <<part, arriving, mirror, outside>>
PlazasNext   == part = "plazas" /\ Plazas!Next /\ UNCHANGED <<part, arriving, together, socials, mails>>
SocialsNext  == part = "socials" /\ Socials!Next /\ UNCHANGED <<part, arriving, together, plazas, mails>>
MailsNext    == part = "mails" /\ Mail!Next /\ UNCHANGED <<part, arriving, together, plazas, socials>>

\* Nothing is said of Cast's rooms any more when all have been broken by two at once.
MirrorNext ==
    part = "mirror" /\ twice # Room /\ Mirror!Next /\ UNCHANGED <<part, arriving, parties, outside>>

MCNext ==
    \/ SessionsNext \/ FrontNext \/ PartiesNext \/ MirrorNext
    \/ PlazasNext \/ SocialsNext \/ MailsNext

MCSpec == MCInit /\ [][MCNext]_<<part, arriving, together, outside>>

Symmetry == Permutations(FrontId)

-----------------------------------------------------------------------------
\* What does not run stays as it was in the initial states.
TypesOK ==
    CASE part = "sessions" -> TypeOK
      [] part = "front"    -> Front!TypeOK
      [] part = "parties"  -> Parties!TypeOK
      [] part = "mirror"   -> Mirror!TypeOK
      [] part = "plazas"   -> Plazas!TypeOK
      [] part = "socials"  -> Socials!TypeOK
      [] part = "mails"    -> Mail!TypeOK

NobodyBlocks    == part = "front" => Front!NobodyBlocks
LeaderIsListed  == part = "parties" => Parties!LeaderIsListed
OwnPartyListsMe == part = "parties" => Parties!OwnPartyListsMe
RoomsMirrored   == part = "mirror" => Mirror!RoomsMirrored
InPlazaIsListed == part = "plazas" => Plazas!InPlazaIsListed
OneSidedBlock   == part = "socials" => Socials!OneSidedBlock
NoMailMissing   == part = "mails" => Mail!NoMailMissing
=============================================================================
