------------------------ MODULE NotificationsGateway ------------------------
(***************************************************************************)
(* The notifications namespace of one instance: how a socket is            *)
(* authenticated when it connects and at every message, how its messages   *)
(* are throttled, and what a notifications:broadcast needs to be sent: the *)
(* rules RulesCache has for the user, which HTTP requests read as well.    *)
(*                                                                         *)
(* Messages are handled as they arrive, also while the socket is still     *)
(* being authenticated and while earlier ones wait for the database, and   *)
(* a handler goes on after its socket is gone.                             *)
(***************************************************************************)
EXTENDS RulesCache, Integers, Sequences

CONSTANTS Socket, Message,
          Limit,       \* messages of a socket in a window
          Window,      \* its length
          Duration     \* bounds the clock

GatewayAssumption ==
    /\ Message \subseteq Guard
    /\ {Limit, Window} \subseteq Nat \ {0} /\ Duration \in Nat

VARIABLES
    now,
    active,      \* users a token can stand for: neither suspended nor deleted
    connected,   \* the sockets of the namespace
    opening,     \* those whose handleConnection waits for authenticate,
    proven,      \* and among them those whose token was verified
    token,       \* the user named by the access token of the handshake,
    valid,       \* and the sockets whose token has not expired
    user,        \* socket.data.user
    joined,      \* the sockets that are in the room of their user
    counter,     \* the throttle's entry in socket.data
    pc, from,    \* each message's next step and socket
    sent,        \* the messages that were broadcast
    \* history: the users RulesCache trusts to manage notifications; when a socket's
    \* messages passed the throttle; the messages that came with a token out of date,
    \* and those whose sender has not been active, or trusted, since they came
    trusted, passed, late, outlawed, barred

connection == <<connected, opening, proven, token, valid, user, joined>>
messages   == <<pc, from, sent>>
world      == <<now, active, cacheVars, trusted>>
history    == <<passed, late, outlawed, barred>>
vars       == <<world, connection, counter, messages, history>>

Pending == {"verify", "lookup", "rules", "load", "store", "emit"}
Steps   == Pending \cup {"none", "done"}
NoEntry == [count |-> 0, resetAt |-> 0]

TypeOK ==
    /\ now \in 0..Duration
    /\ CacheTypeOK /\ active \subseteq User /\ trusted \subseteq User
    /\ connected \cup opening \cup valid \subseteq Socket /\ proven \subseteq opening
    /\ token \in [Socket -> User \cup {None}] /\ user \in [Socket -> User \cup {None}]
    /\ joined \subseteq connected
    /\ counter \in [Socket -> [count : Nat, resetAt : 0..(Duration + Window)]]
    /\ pc \in [Message -> Steps]
    /\ \A m \in Message : pc[m] = "none" \/ from[m] \in Socket
    /\ sent \cup late \cup outlawed \cup barred \subseteq Message
    /\ \A s \in Socket : passed[s] \in Seq(0..Duration)

Init ==
    /\ CacheInit /\ trusted = permitted
    /\ now = 0 /\ active = User
    /\ connected = {} /\ opening = {} /\ proven = {} /\ valid = {} /\ joined = {}
    /\ token = [s \in Socket |-> None] /\ user = [s \in Socket |-> None]
    /\ counter = [s \in Socket |-> NoEntry]
    /\ pc = [m \in Message |-> "none"] /\ from = [m \in Message |-> None]
    /\ sent = {} /\ passed = [s \in Socket |-> <<>>]
    /\ late = {} /\ outlawed = {} /\ barred = {}

-----------------------------------------------------------------------------
\* verifyToken: the signature and expiry of the token, and after that the row of
\* the user it names.
InDate(s)   == s \in valid
IsActive(s) == token[s] \in active

\* Mutant: the user found when the socket connected is trusted.
Remembered(s) == user[s] # None
MessageVerified(s) == InDate(s)

Underway(s) == {m \in Message : from[m] = s /\ pc[m] \in Pending}

\* Bound: a socket's name is used again when nothing of its last life is left.
Connect(s, u) ==
    /\ s \notin connected \cup opening /\ Underway(s) = {}
    /\ connected' = connected \cup {s} /\ opening' = opening \cup {s}
    /\ token' = [token EXCEPT ![s] = u]
    /\ valid' = IF u = None THEN valid \ {s} ELSE valid \cup {s}
    /\ user' = [user EXCEPT ![s] = None]
    /\ counter' = [counter EXCEPT ![s] = NoEntry]
    /\ passed' = [passed EXCEPT ![s] = <<>>]
    /\ UNCHANGED <<world, proven, joined, messages, late, outlawed, barred>>

\* disconnect(true), and what socket.io does when a socket closes.
Close(s) ==
    /\ connected' = connected \ {s}
    /\ joined' = joined \ {s}

Proven(s) ==
    /\ s \in opening \ proven /\ InDate(s)
    /\ proven' = proven \cup {s}
    /\ UNCHANGED <<world, connected, opening, token, valid, user, joined, counter,
                   messages, history>>

Opened(s) == opening' = opening \ {s} /\ proven' = proven \ {s}

\* Mutant: the room is joined whatever authenticate returned.
AuthenticatedOrNot(s) ==
    /\ s \in opening
    /\ user' = [user EXCEPT ![s] = token[s]]
    /\ joined' = joined \cup ({s} \cap connected)
    /\ Opened(s)
    /\ UNCHANGED <<world, connected, token, valid, counter, messages, history>>

\* handleConnection goes on: join does nothing once the socket is closed.
Authenticated(s) ==
    /\ s \in proven /\ IsActive(s)
    /\ user' = [user EXCEPT ![s] = token[s]]
    /\ joined' = joined \cup ({s} \cap connected)
    /\ Opened(s)
    /\ UNCHANGED <<world, connected, token, valid, counter, messages, history>>

\* The token or its user is not in order, or the look-up throws.
Refused(s) ==
    /\ s \in opening /\ (s \in proven \/ ~ InDate(s))
    /\ Close(s)
    /\ Opened(s)
    /\ UNCHANGED <<world, token, valid, user, counter, messages, history>>

Disconnect(s) ==
    /\ s \in connected
    /\ Close(s)
    /\ UNCHANGED <<world, opening, proven, token, valid, user, counter, messages, history>>

-----------------------------------------------------------------------------
\* Mutant: the length of the window is not added.
StartedAndOver(s) == [count |-> 1, resetAt |-> now]
Started(s) == [count |-> 1, resetAt |-> now + Window]

Entry(s) ==
    IF counter[s] = NoEntry \/ counter[s].resetAt <= now THEN Started(s)
    ELSE [counter[s] EXCEPT !.count = @ + 1]

\* A message arrives.  The throttle, the first guard, is synchronous; what passes
\* it waits for the verification of its token.
Arrive(s, m) ==
    /\ s \in connected /\ pc[m] = "none"
    /\ from' = [from EXCEPT ![m] = s]
    /\ counter' = [counter EXCEPT ![s] = Entry(s)]
    /\ IF Entry(s).count > Limit
       THEN /\ pc' = [pc EXCEPT ![m] = "done"]
            /\ UNCHANGED history
       ELSE /\ pc' = [pc EXCEPT ![m] = "verify"]
            /\ passed' = [passed EXCEPT ![s] = Append(@, now)]
            /\ late' = IF InDate(s) THEN late ELSE late \cup {m}
            /\ outlawed' = IF IsActive(s) THEN outlawed ELSE outlawed \cup {m}
            /\ barred' = IF token[s] \in trusted THEN barred ELSE barred \cup {m}
    /\ UNCHANGED <<world, connection, sent>>

Goto(m, step) == pc' = [pc EXCEPT ![m] = step] /\ UNCHANGED from

Verify(m) ==
    /\ pc[m] = "verify" /\ MessageVerified(from[m])
    /\ Goto(m, "lookup")
    /\ UNCHANGED <<world, connection, counter, sent, history>>

LookUp(m) ==
    LET s == from[m] IN
    /\ pc[m] = "lookup" /\ IsActive(s)
    /\ user' = [user EXCEPT ![s] = token[s]]
    /\ Goto(m, "rules")
    /\ UNCHANGED <<world, connected, opening, proven, token, valid, joined, counter,
                   sent, history>>

VerifyFails(m) ==
    /\ pc[m] = "lookup" \/ (pc[m] = "verify" /\ ~ InDate(from[m]))
    /\ Close(from[m])
    /\ Goto(m, "done")
    /\ UNCHANGED <<world, opening, proven, token, valid, user, counter, sent, history>>

\* assertPermissionRules throws, or the broadcast goes on.
Decide(m, has) == Goto(m, IF has THEN "emit" ELSE "done")

\* getAbilityForUser: the entry decides, however old it is.
RulesCached(m) ==
    LET u == user[from[m]] IN
    /\ pc[m] = "rules" /\ u \in cached
    /\ Decide(m, u \in says)
    /\ UNCHANGED <<world, connection, counter, sent, history>>

\* There is no entry, or Redis fails.
RulesMissed(m) ==
    /\ pc[m] = "rules"
    /\ Goto(m, "load")
    /\ UNCHANGED <<world, connection, counter, sent, history>>

Trust == trusted' = StillTrusted(trusted)

LoadRules(m) ==
    /\ pc[m] = "load"
    /\ Load(m, user[from[m]]) /\ Trust
    /\ Goto(m, "store")
    /\ UNCHANGED <<now, active, connection, counter, sent, history>>

\* What was loaded is cached, unless Redis fails, and decides.
StoreRules(m) ==
    /\ pc[m] = "store"
    /\ Put(m) \/ PutFails(m)
    /\ Trust
    /\ Decide(m, m \in saw)
    /\ UNCHANGED <<now, active, connection, counter, sent, history>>

\* The database fails; the socket stays.
LoadFails(m) ==
    /\ pc[m] = "load"
    /\ Goto(m, "done")
    /\ UNCHANGED <<world, connection, counter, sent, history>>

Broadcast(m) ==
    /\ pc[m] = "emit"
    /\ sent' = sent \cup {m}
    /\ Goto(m, "done")
    /\ UNCHANGED <<world, connection, counter, history>>

-----------------------------------------------------------------------------
\* What happens elsewhere: administrators, other guards, the clock, the expiry of
\* tokens.  A message is no longer outlawed, or barred, once its sender was seen to
\* be in order.
SetStatus(u) ==
    /\ active' \in {active \cup {u}, active \ {u}} \ {active}
    /\ outlawed' = {m \in outlawed : token[from[m]] \notin active'}
    /\ UNCHANGED <<now, cacheVars, trusted, connection, counter, messages, passed, late,
                   barred>>

ChangeRights ==
    /\ Change /\ Trust
    /\ barred' = {m \in barred : token[from[m]] \notin trusted'}
    /\ UNCHANGED <<now, active, connection, counter, messages, passed, late, outlawed>>

\* Entries are dropped, and filled by the guards of other entrances.
Elsewhere ==
    /\ \/ \E u \in User : Drop(u)
       \/ \E g \in Guard \ Message : Put(g) \/ PutFails(g) \/ \E u \in User : Load(g, u)
    /\ Trust
    /\ UNCHANGED <<now, active, connection, counter, messages, history>>

ExpireToken(s) ==
    /\ s \in valid
    /\ valid' = valid \ {s}
    /\ UNCHANGED <<world, connected, opening, proven, token, user, joined, counter,
                   messages, history>>

Tick ==
    /\ now < Duration
    /\ now' = now + 1
    /\ UNCHANGED <<active, cacheVars, trusted, connection, counter, messages, history>>

Proceed(m) ==
    \/ Verify(m) \/ LookUp(m) \/ VerifyFails(m) \/ RulesCached(m) \/ RulesMissed(m)
    \/ LoadRules(m) \/ StoreRules(m) \/ LoadFails(m) \/ Broadcast(m)

Next ==
    \/ \E s \in Socket : \/ \E u \in User \cup {None} : Connect(s, u)
                         \/ Proven(s) \/ Authenticated(s) \/ Refused(s)
                         \/ Disconnect(s) \/ ExpireToken(s)
                         \/ \E m \in Message : Arrive(s, m)
    \/ \E m \in Message : Proceed(m)
    \/ (\E u \in User : SetStatus(u)) \/ ChangeRights \/ Elsewhere
    \/ Tick

Spec == Init /\ [][Next]_vars

-----------------------------------------------------------------------------
\* A message whose token is out of date when it comes broadcasts nothing, however
\* long the socket has been connected and whatever its other messages do; nor does
\* one whose sender is suspended or deleted then and stays so; nor one whose sender
\* then has neither the rules nor an entry, or a guard about to write one, that kept
\* them since the sender had them, and is not given them in time.
BroadcastsAreAuthorized == sent \cap (late \cup outlawed \cup barred) = {}

\* The room of a user holds open sockets whose token named that user, and that
\* were found in order at least once: a socket refused, closed or never
\* authenticated is in no room.
RoomsAreOwned ==
    \A s \in joined : s \in connected \ opening /\ token[s] # None /\ user[s] = token[s]

\* The windows are fixed and start with a message, so that two of them can touch:
\* in any time as long as a window, twice the limit passes the throttle, not more.
BurstsAreBounded ==
    \A s \in Socket : \A k \in DOMAIN passed[s] :
        k + 2 * Limit \in DOMAIN passed[s] =>
            passed[s][k + 2 * Limit] - passed[s][k] >= Window

=============================================================================
