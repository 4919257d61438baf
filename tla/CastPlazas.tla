----------------------------- MODULE CastPlazas -----------------------------
(***************************************************************************)
(* The plazas of the Cast server: lists of sessions that are made by the   *)
(* first to join and erased by the last to leave.  A handler looks for the *)
(* plaza, and then finds it or makes it; it empties it, and then erases    *)
(* it: it holds no lock in between, and handlers of other sessions run, and *)
(* Main's answers, which replace accounts.                                 *)
(*                                                                         *)
(* Abstractions: what players are told; a session that Main's answer moves *)
(* to another id (CastSessions) is gone under the old one.                 *)
(***************************************************************************)
EXTENDS Naturals

CONSTANTS
    Sid,    \* ids of sessions
    Plaza,  \* ids of plazas
    First   \* the one that a new account names, 0 in the code

VARIABLES
    plazas,     \* the keys of CPlaza
    players,    \* Plaza -> players_session_id, each of them once
    plazaId,    \* plaza_id of the accounts
    inPlaza,    \* in_plaza of the accounts
    cached,     \* the sessions with an account
    step        \* how far a session's handler has come, and its plaza

vars == <<plazas, players, plazaId, inPlaza, cached, step>>

At(where, q) == [at |-> where, plaza |-> q]
Idle == At("idle", First)

TypeOK ==
    /\ plazas \subseteq Plaza /\ players \in [Plaza -> SUBSET Sid]
    /\ plazaId \in [Sid -> Plaza] /\ inPlaza \subseteq Sid
    /\ cached \subseteq Sid
    /\ step \in [Sid -> [at : {"idle", "adds", "makes", "joined", "moves", "erases"},
                         plaza : Plaza]]

Init ==
    /\ plazas = {} /\ players = [q \in Plaza |-> {}]
    /\ plazaId = [s \in Sid |-> First] /\ inPlaza = {} /\ cached = {}
    /\ step = [s \in Sid |-> Idle]

Goes(s, where, q) == step' = [step EXCEPT ![s] = At(where, q)]
Ends(s) == step' = [step EXCEPT ![s] = Idle]

-----------------------------------------------------------------------------
\* Each of Main's answers gives the session a new account, which is in no plaza, in
\* the place of one it has, and also while a PlazaJoin is on its way.  (One that
\* comes while a leave or disconnect holds the old account's lock destroys what is
\* locked, which is undefined, and is left out.)
Authorised(s) ==
    /\ step[s].at # "erases"
    /\ cached' = cached \cup {s}
    /\ plazaId' = [plazaId EXCEPT ![s] = First] /\ inPlaza' = inPlaza \ {s}
    /\ UNCHANGED <<plazas, players, step>>

\* PlazaJoin looks for the plaza ...
Look(s, q) ==
    /\ step[s] = Idle
    /\ Goes(s, IF q \in plazas THEN "adds" ELSE "makes", q)
    /\ UNCHANGED <<plazas, players, plazaId, inPlaza, cached>>

\* ... that it has found, and joins it.  If it is gone by now, the release of its
\* lock fails and ends the handler, as does the session's being in it already.
Add(s) ==
    LET q == step[s].plaza IN
    /\ step[s].at = "adds"
    /\ IF q \in plazas /\ s \notin players[q]
       THEN players' = [players EXCEPT ![q] = @ \cup {s}] /\ Goes(s, "joined", q)
       ELSE UNCHANGED players /\ Ends(s)
    /\ UNCHANGED <<plazas, plazaId, inPlaza, cached>>

\* ... that it has not found, and makes it.  One that is there by now is kept, and
\* the session is not in it.
MakePlaza(s) ==
    LET q == step[s].plaza IN
    /\ step[s].at = "makes"
    /\ plazas' = plazas \cup {q}
    /\ players' = IF q \in plazas THEN players ELSE [players EXCEPT ![q] = {s}]
    /\ Goes(s, "joined", q)
    /\ UNCHANGED <<plazaId, inPlaza, cached>>

\* Defect: the old plaza is read when the account has been told of the new one.
MovesFromNew(s, q) == FALSE

Moves(s, q) == plazaId[s] # q

\* ... and tells the account, if there is one.
TellAccount(s) ==
    LET q == step[s].plaza IN
    /\ step[s].at = "joined"
    /\ IF s \in cached
       THEN /\ plazaId' = [plazaId EXCEPT ![s] = q] /\ inPlaza' = inPlaza \cup {s}
            /\ IF Moves(s, q) THEN Goes(s, "moves", plazaId[s]) ELSE Ends(s)
       ELSE Ends(s) /\ UNCHANGED <<plazaId, inPlaza>>
    /\ UNCHANGED <<plazas, players, cached>>

\* Defect: the plaza is looked at before the session is taken out.
EmptyBefore(s, q) == players[q] = {}

\* Nobody is left in the plaza without the session.
Last(s, q) == players[q] \ {s} = {}

\* The session is taken out; an empty plaza is let go, and erased thereafter.
TakeOut(s, q) ==
    IF q \in plazas
    THEN /\ players' = [players EXCEPT ![q] = @ \ {s}]
         /\ IF Last(s, q) THEN Goes(s, "erases", q) ELSE Ends(s)
    ELSE UNCHANGED players /\ Ends(s)

\* ... and leaves the plaza that the account named.
LeaveOld(s) ==
    /\ step[s].at = "moves" /\ TakeOut(s, step[s].plaza)
    /\ UNCHANGED <<plazas, plazaId, inPlaza, cached>>

\* Whoever is in by now is lost.
Erase(s) ==
    LET q == step[s].plaza IN
    /\ step[s].at = "erases"
    /\ plazas' = plazas \ {q} /\ players' = [players EXCEPT ![q] = {}]
    /\ Ends(s)
    /\ UNCHANGED <<plazaId, inPlaza, cached>>

\* PlazaLeave; the account keeps the plaza's id.
Leave(s) ==
    /\ step[s] = Idle /\ s \in inPlaza /\ plazaId[s] \in plazas
    /\ TakeOut(s, plazaId[s]) /\ inPlaza' = inPlaza \ {s}
    /\ UNCHANGED <<plazas, plazaId, cached>>

\* ServerDisconnect, which ends with the account.
Disconnect(s) ==
    /\ step[s] = Idle /\ s \in cached
    /\ IF s \in inPlaza THEN TakeOut(s, plazaId[s]) ELSE UNCHANGED <<players, step>>
    /\ inPlaza' = inPlaza \ {s} /\ cached' = cached \ {s}
    /\ UNCHANGED <<plazas, plazaId>>

Next ==
    \E s \in Sid :
        \/ Authorised(s) \/ Add(s) \/ MakePlaza(s) \/ TellAccount(s) \/ LeaveOld(s)
        \/ Erase(s) \/ Leave(s) \/ Disconnect(s)
        \/ \E q \in Plaza : Look(s, q)

Spec == Init /\ [][Next]_vars

-----------------------------------------------------------------------------
\* The session knows of being in the plaza: its account names it, or its handler is
\* about to leave it or to tell the account of it.
Knows(s, q) ==
    \/ s \in inPlaza /\ plazaId[s] = q
    \/ step[s].at \in {"joined", "moves"} /\ step[s].plaza = q

\* Nobody comes to be in the list of a plaza without knowing, so nobody is sent the
\* movements of a plaza it has left, whatever the handlers of others do in between
\* (Plaza/Join.h, Plaza/Leave.h, Core/Disconnect.h).  Only two things leave a session
\* in such a list: an answer of Main that replaces its account, and a PlazaJoin of a
\* session that has none.
ListedInOwnPlaza ==
    [][\A q \in Plaza : \A s \in players'[q] :
          ~Knows(s, q)' => \/ s \in players[q] /\ ~Knows(s, q)
                          \/ Authorised(s)
                          \/ s \notin cached]_vars

\* A plaza that nobody is in is about to be erased, so none is left behind, however
\* many leave and join it at once.
EmptyGoes ==
    \A q \in plazas : players[q] = {} => \E s \in Sid : step[s] = At("erases", q)
=============================================================================
