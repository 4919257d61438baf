---------------------------- MODULE CastSessions ----------------------------
(***************************************************************************)
(* Sessions of the Cast server.  A client asks to be authorised; Cast      *)
(* passes the request to Main with the session's id of the moment, Main    *)
(* answers with the id the player has there, and Cast moves the session to *)
(* that id (AdoptSid), trying again while it cannot, and caches the        *)
(* player's account.  The generator of ids knows nothing of adopted ids.   *)
(*                                                                         *)
(* Answers and retries run beside the sessions' strands, so they come      *)
(* between the steps of a disconnect, which reads the id it goes by first. *)
(***************************************************************************)
EXTENDS SessionTable

CONSTANT MaxTries       \* retries of an answer, 10 in the code

ASSUME MaxTriesAssumption == MaxTries \in Nat

VARIABLES
    request,    \* Conn -> the request of the connection and Main's answer to it
    account,    \* CAccount: Id -> the connection whose request put it there, or None
    leaving     \* Conn -> a disconnect's progress and the id it has read

vars == <<tableVars, request, account, leaving>>

Request == [at : {"none", "pending", "adopted", "over"},
            old : 0 .. MaxId, new : 0 .. MaxId, tries : 0 .. MaxTries]
Leaving == [at : {"no", "closed", "removed"}, id : 0 .. MaxId]

Unused(state) == [at |-> state, old |-> 0, new |-> 0, tries |-> 0]
Staying == [at |-> "no", id |-> 0]

TypeOK ==
    /\ TableTypeOK
    /\ request \in [Conn -> Request]
    /\ account \in [Id -> Conn \cup {None}]
    /\ leaving \in [Conn -> Leaving]
    /\ \A c \in Conn :
          /\ request[c].at \in {"pending", "adopted"} => {request[c].old, request[c].new} \subseteq Id
          /\ leaving[c].at # "no" => leaving[c].id \in Id

Init ==
    /\ TableInit
    /\ request = [c \in Conn |-> Unused("none")]
    /\ account = [id \in Id |-> None]
    /\ leaving = [c \in Conn |-> Staying]

-----------------------------------------------------------------------------
Arrive(c) ==
    /\ Accept(c) \/ Refuse(c) \/ Enter(c)
    /\ UNCHANGED <<request, account, leaving>>

\* NodeAuthorize, together with what Main will answer: any id, as Main's ids
\* have nothing to do with Cast's.  (Main may also drop the request, or answer
\* late: the answer is taken whenever it comes.)
NodeAuthorize(c, new) ==
    /\ Handling(c) /\ request[c].at = "none"
    /\ request' = [request EXCEPT ![c] = [@ EXCEPT !.at = "pending", !.old = sid[c], !.new = new]]
    /\ UNCHANGED account /\ UNCHANGED leaving /\ Still

\* AdoptSid succeeds: nothing is to be done, or there is a session to move and
\* nobody in its new place.
Adopts(old, new) == old = new \/ (table[old] # None /\ table[new] = None)

\* Defect: the moved session is still found under its old id.
MovedAndKept(old, new) == [table EXCEPT ![new] = table[old]]

Moved(old, new) == [table EXCEPT ![old] = None, ![new] = table[old]]

AdoptSid(c) ==
    LET old == request[c].old
        new == request[c].new
    IN  /\ request[c].at = "pending" /\ Adopts(old, new)
        /\ request' = [request EXCEPT ![c].at = "adopted"]
        /\ IF old = new
           THEN Still
           ELSE /\ table' = Moved(old, new)
                /\ sid' = [sid EXCEPT ![table[old]] = new]
                /\ free' = free \cup {old}
                /\ UNCHANGED <<counter, socket, entering>>
        /\ UNCHANGED <<account, leaving>>

MayRetry(c) == request[c].tries < MaxTries

\* An answer that cannot be followed waits 200 ms and is tried again.  The
\* session in the way is told to disconnect, and after the last try the one
\* under the old id, which they may do at any time.
Retry(c) ==
    LET r == request[c]
    IN  /\ r.at = "pending" /\ ~Adopts(r.old, r.new)
        /\ request' = [request EXCEPT ![c] = IF MayRetry(c) THEN [r EXCEPT !.tries = r.tries + 1]
                                                            ELSE Unused("over")]
        /\ UNCHANGED account /\ UNCHANGED leaving /\ Still

\* The rest of IpcMainAuthorize caches the account, in the place of any other.
Install(c) ==
    /\ request[c].at = "adopted"
    /\ request' = [request EXCEPT ![c] = Unused("over")]
    /\ account' = [account EXCEPT ![request[c].new] = c]
    /\ UNCHANGED leaving /\ Still

-----------------------------------------------------------------------------
\* ServerDisconnect in three steps: the id is read, the session of that id
\* removed and the account of that id dropped.  (Leaving a plaza is left out.)
Disconnect(c) ==
    /\ Close(c)
    /\ leaving' = [leaving EXCEPT ![c] = [at |-> "closed", id |-> sid[c]]]
    /\ UNCHANGED <<counter, free, table, sid, entering, request, account>>

DropSession(c) ==
    /\ leaving[c].at = "closed"
    /\ leaving' = [leaving EXCEPT ![c].at = "removed"]
    /\ RemoveSession(leaving[c].id)
    /\ UNCHANGED <<counter, sid, socket, entering, request, account>>

DropAccount(c) ==
    /\ leaving[c].at = "removed"
    /\ leaving' = [leaving EXCEPT ![c] = Staying]
    /\ account' = [account EXCEPT ![leaving[c].id] = None]
    /\ UNCHANGED request /\ Still

Next ==
    \E c \in Conn :
        \/ Arrive(c) \/ AdoptSid(c) \/ Retry(c) \/ Install(c)
        \/ Disconnect(c) \/ DropSession(c) \/ DropAccount(c)
        \/ \E new \in Id : NodeAuthorize(c, new)

Spec == Init /\ [][Next]_vars

-----------------------------------------------------------------------------
\* Core/Disconnect.h:14 of Cast: sessions that have not asked to be authorised
\* have no account entry.
NoAccountWithoutRequest ==
    \A c \in Conn : Reading(c) /\ request[c].at = "none" => account[sid[c]] = None
=============================================================================
