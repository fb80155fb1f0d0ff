------------------------------ MODULE MCGuards ------------------------------
(***************************************************************************)
(* The two guarded entrances of an instance for TLC: the guards of HTTP    *)
(* requests, and those of the messages of the notifications gateway.  Each *)
(* has the other in its Elsewhere, so a behaviour of both is one of each   *)
(* side by side; here one moves and the other rests, which is the sum of   *)
(* their states and not the product.  What moves is cut once more:         *)
(*   "flood"     requests of routes that ask for no rules; the rights rest *)
(*   "rules"     requests of restricted routes without a throttle          *)
(*   "bursts"    sockets and the clock; accounts, rights and entries rest  *)
(*   "messages"  sockets, accounts, rights and entries, for the messages   *)
(*               of Few                                                    *)
(***************************************************************************)
EXTENDS HttpPipeline, TLC

CONSTANTS Socket, Message, MaxMessages, Window, Duration,    \* of NotificationsGateway
          Few

VARIABLES moves, now, unblocked, mayManage, entries, tells, fetching, found, relied,
          connected, opening, proven, token, valid, socketUser, joined, counter, step,
          from, sent, passed, late, outlawed, barred

gateWorld == <<unblocked, mayManage, entries, tells, fetching, found, relied>>
gateVars  == <<now, gateWorld, connected, opening, proven, token, valid, socketUser, joined,
               counter, step, from, sent, passed, late, outlawed, barred>>
allVars   == <<moves, vars, gateVars>>

G == INSTANCE NotificationsGateway WITH
        Guard <- Message \cup (Guard \ Request), Limit <- MaxMessages,
        active <- unblocked, permitted <- mayManage, cached <- entries, says <- tells,
        loading <- fetching, saw <- found, trusted <- relied, user <- socketUser, pc <- step

ASSUME GuardsAssumption == G!GatewayAssumption

Resting == active = User /\ permitted = {}

MCInit ==
    /\ moves \in {"flood", "rules", "bursts", "messages"}
    /\ Init /\ G!Init
    /\ moves # "messages" => mayManage = {}
    /\ moves = "flood" => permitted = {}
    /\ moves \in {"bursts", "messages"} => Resting

\* Every request asks for one of these.
Asking(routes) == \A r \in Request : route'[r] \in routes \cup {None}

Http ==
    \/ moves = "flood" /\ Next /\ Asking(Route \ Restricted)
                       /\ UNCHANGED <<moves, gateVars, cacheVars>>
    \/ moves = "rules" /\ Next /\ Asking(Restricted \cap Unthrottled)
                       /\ UNCHANGED <<moves, gateVars>>

Gateway ==
    \/ moves = "bursts"   /\ G!Next /\ UNCHANGED <<moves, vars, gateWorld>>
    \/ moves = "messages" /\ G!Next /\ (\A m \in Message \ Few : step'[m] = "none")
                          /\ UNCHANGED <<moves, vars>>

MCNext == Http \/ Gateway

MCSpec == MCInit /\ [][MCNext]_allVars

Symmetry == Permutations(Request) \cup Permutations(Instance) \cup Permutations(Few)
                \cup Permutations(Message \ Few)

-----------------------------------------------------------------------------
\* Properties of NotificationsGateway: broadcasts need a sender in order, rooms an
\* authenticated open socket, and bursts are bounded by twice the limit.
BroadcastsAreAuthorized == G!BroadcastsAreAuthorized
RoomsAreOwned           == G!TypeOK /\ G!RoomsAreOwned
BurstsAreBounded        == G!BurstsAreBounded
=============================================================================
