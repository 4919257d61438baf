------------------------------- MODULE MCCast -------------------------------
(***************************************************************************)
(* Cast on small instances, in one run: "part" says whether the sessions   *)
(* or the plazas run, the others stay in their initial states.  The        *)
(* sessions are extended, and the plazas' ids of sessions are as good as   *)
(* connections.                                                            *)
(***************************************************************************)
EXTENDS CastSessions, TLC

VARIABLE part

sessions == vars

CONSTANTS Plaza, First
ASSUME FirstAssumption == First \in Plaza
VARIABLES plazas, players, plazaId, inPlaza, cached, step
inPlazas == <<plazas, players, plazaId, inPlaza, cached, step>>
Plazas == INSTANCE CastPlazas WITH Sid <- Conn

MCInit == part \in {"sessions", "plazas"} /\ Init /\ Plazas!Init

SessionsNext == part = "sessions" /\ Next /\ UNCHANGED <<part, inPlazas>>
PlazasNext   == part = "plazas" /\ Plazas!Next /\ UNCHANGED <<part, sessions>>

MCSpec == MCInit /\ [][SessionsNext \/ PlazasNext]_<<part, sessions, inPlazas>>

Symmetry == Permutations(Conn)

-----------------------------------------------------------------------------
TypesOK == CASE part = "sessions" -> TypeOK [] part = "plazas" -> Plazas!TypeOK

ListedInOwnPlaza == Plazas!ListedInOwnPlaza
EmptyGoes        == part = "plazas" => Plazas!EmptyGoes
=============================================================================
