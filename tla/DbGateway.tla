------------------------------ MODULE DbGateway ------------------------------
(***************************************************************************)
(* gstop's shared database gateway, src/internal/dbconn/dbconn.go.  Every  *)
(* monitor, hook and emergency module calls it: a call takes the gateway's *)
(* mutex, gets a usable pool from ensure (which may ping while it holds    *)
(* the mutex), and runs its statement over the pool's only connection.  A  *)
(* statement the server refuses marks the pool unhealthy; a call whose     *)
(* deadline passed blames nobody.  q cancels every call and Close drops    *)
(* the pool.  A call may also hang: the server then answers nothing and    *)
(* only the call's own deadline, collect_timeout, ends it.                 *)
(***************************************************************************)
EXTENDS Naturals, FiniteSets

CONSTANTS Caller,        \* goroutines that use the gateway
          Operation,     \* the kinds of call they make
          UserDatabase   \* databases a cross-database query may find, 0..n

\* Operations are Query, NoReturn (also BackgroundQuery) and ExecuteOnUserDB.
ASSUME GatewayAssumption ==
         /\ Operation \subseteq {"query", "exec", "cross"} /\ Operation # {}
         /\ UserDatabase \subseteq Nat
         /\ "free" \notin Caller

NobodyHolds == "free"

VARIABLES gw,    \* the DB: pool number (0: nil), healthy, recent (an attempt
                 \* within the last second), owner (of mu), kind (detected),
                 \* closer (the shutdown), opened (pools ever opened), and
                 \* two facts about the past: seen (this pool answered a
                 \* ping) and refused (the server refused a statement)
          stream,  \* <<caller, pool>> pairs: connections with an open result
          call     \* per caller: pc, op, its pool, expired, left (databases)

gatewayVars == <<gw, stream, call>>

GatewayTypeOK ==
  /\ gw.owner \in Caller \cup {NobodyHolds}
  /\ {gw.healthy, gw.recent, gw.kind, gw.seen, gw.refused} \subseteq BOOLEAN
  /\ gw.closer \in {"open", "canceled", "closed"}
  /\ gw.pool \in Nat /\ gw.opened \in Nat
  /\ stream \subseteq Caller \X Nat
  /\ \A c \in Caller : call[c].op \in Operation /\ call[c].pool \in Nat

NoCall == [pc |-> "idle", op |-> CHOOSE o \in Operation : TRUE, pool |-> 0,
           expired |-> FALSE, left |-> 0]

GatewayInit ==
  /\ gw = [pool |-> 0, opened |-> 0, healthy |-> FALSE, recent |-> FALSE,
           owner |-> NobodyHolds, kind |-> FALSE, closer |-> "open",
           seen |-> FALSE, refused |-> FALSE]
  /\ stream = {}
  /\ call = [c \in Caller |-> NoCall]

CallAt(c, pc) == call[c].pc = pc
\* The operation's context is done: collect_timeout, its parent, or q.
CallOver(c) == call[c].expired \/ gw.closer # "open"
Moves(c, pc) == call' = [call EXCEPT ![c].pc = pc]
Returns(c) == call' = [call EXCEPT ![c] = NoCall]
Released(c) == {s \in stream : s[1] # c}
\* database/sql hands out at most maxPoolConns connections of one pool.
maxPoolConns == 1
MayStream(c, p) == Cardinality({s \in stream : s[2] = p}) < maxPoolConns

StartCall(c, op) ==
  /\ CallAt(c, "idle")
  /\ call' = [call EXCEPT ![c].pc = "lock", ![c].op = op]
  /\ UNCHANGED <<gw, stream>>

LockGateway(c) ==
  /\ CallAt(c, "lock") /\ gw.owner = NobodyHolds
  /\ gw' = [gw EXCEPT !.owner = c]
  /\ Moves(c, "ensure")
  /\ UNCHANGED stream

AfterEnsure(c) == IF call[c].op = "query" THEN "detect" ELSE "send"

EnsureHealthy(c) ==
  /\ CallAt(c, "ensure") /\ gw.pool # 0 /\ gw.healthy
  /\ gw' = [gw EXCEPT !.owner = NobodyHolds]
  /\ call' = [call EXCEPT ![c].pc = AfterEnsure(c), ![c].pool = gw.pool]
  /\ UNCHANGED stream

\* One reconnect attempt a second: the others find no connection.
EnsureThrottled(c) ==
  /\ CallAt(c, "ensure") /\ ~(gw.pool # 0 /\ gw.healthy) /\ gw.recent
  /\ gw' = [gw EXCEPT !.owner = NobodyHolds]
  /\ Returns(c)
  /\ UNCHANGED stream

EnsureOpens(c) ==
  /\ CallAt(c, "ensure") /\ ~(gw.pool # 0 /\ gw.healthy) /\ ~gw.recent
  /\ gw' = IF gw.pool # 0 THEN [gw EXCEPT !.recent = TRUE]
           ELSE [gw EXCEPT !.recent = TRUE, !.pool = gw.opened + 1,
                           !.opened = @ + 1, !.seen = FALSE]
  /\ Moves(c, "ping")
  /\ UNCHANGED stream

\* sql.Open refused the connection string.
EnsureOpenFails(c) ==
  /\ CallAt(c, "ensure") /\ gw.pool = 0 /\ ~gw.recent
  /\ gw' = [gw EXCEPT !.recent = TRUE, !.owner = NobodyHolds]
  /\ Returns(c)
  /\ UNCHANGED stream

\* The ping waits for the connection while its caller holds the mutex.
PingStarts(c) ==
  /\ CallAt(c, "ping") /\ ~CallOver(c) /\ MayStream(c, gw.pool)
  /\ stream' = stream \cup {<<c, gw.pool>>}
  /\ Moves(c, "pinging")
  /\ UNCHANGED gw

PingAnswered(c) ==
  /\ CallAt(c, "pinging")
  /\ gw' = [gw EXCEPT !.healthy = TRUE, !.seen = TRUE, !.owner = NobodyHolds]
  /\ call' = [call EXCEPT ![c].pc = AfterEnsure(c), ![c].pool = gw.pool]
  /\ stream' = Released(c)

PingRefused(c) ==
  /\ CallAt(c, "pinging") /\ ~CallOver(c)
  /\ gw' = [gw EXCEPT !.healthy = FALSE, !.owner = NobodyHolds]
  /\ Returns(c)
  /\ stream' = Released(c)

\* Mutant: the ping is bounded by q alone, not by the call's deadline.
PingUnbounded(c) ==
  /\ call[c].pc \in {"ping", "pinging"} /\ gw.closer # "open"
  /\ gw' = [gw EXCEPT !.owner = NobodyHolds]
  /\ Returns(c)
  /\ stream' = Released(c)

PingEnded(c) ==
  /\ call[c].pc \in {"ping", "pinging"} /\ CallOver(c)
  /\ gw' = [gw EXCEPT !.owner = NobodyHolds]
  /\ Returns(c)
  /\ stream' = Released(c)

\* detectKind asks for version() once; a failure leaves it for the next query.
KindKnown(c) ==
  /\ CallAt(c, "detect") /\ gw.kind
  /\ Moves(c, "send")
  /\ UNCHANGED <<gw, stream>>

AskKind(c) ==
  /\ CallAt(c, "detect") /\ ~gw.kind /\ ~CallOver(c) /\ MayStream(c, call[c].pool)
  /\ stream' = stream \cup {<<c, call[c].pool>>}
  /\ Moves(c, "detecting")
  /\ UNCHANGED gw

KindAnswered(c, ok) ==
  /\ CallAt(c, "detecting")
  /\ gw' = [gw EXCEPT !.kind = @ \/ ok]
  /\ Moves(c, "send")
  /\ stream' = Released(c)

KindEnded(c) ==
  /\ call[c].pc \in {"detect", "detecting"} /\ CallOver(c)
  /\ Moves(c, "send")
  /\ stream' = Released(c)
  /\ UNCHANGED gw

SendStatement(c) ==
  /\ CallAt(c, "send") /\ ~CallOver(c) /\ MayStream(c, call[c].pool)
  /\ stream' = stream \cup {<<c, call[c].pool>>}
  /\ Moves(c, "sent")
  /\ UNCHANGED gw

ExecDone(c) ==
  /\ CallAt(c, "sent") /\ call[c].op = "exec"
  /\ Returns(c)
  /\ stream' = Released(c)
  /\ UNCHANGED gw

RowsArrive(c) ==
  /\ CallAt(c, "sent") /\ call[c].op # "exec"
  /\ Moves(c, "scan")
  /\ UNCHANGED <<gw, stream>>

\* The driver reports an error.  Rows close themselves when Next reports one.
StatementFails(c) ==
  /\ call[c].pc \in {"sent", "scan"} /\ ~CallOver(c)
  /\ gw' = [gw EXCEPT !.refused = TRUE]
  /\ IF CallAt(c, "scan") /\ call[c].op = "cross" THEN Returns(c) ELSE Moves(c, "mark")
  /\ stream' = Released(c)

StatementEnded(c) ==
  /\ call[c].pc \in {"send", "sent", "scan"} /\ CallOver(c)
  /\ Returns(c)
  /\ stream' = Released(c)
  /\ UNCHANGED gw

RowsScanned(c) ==
  /\ CallAt(c, "scan") /\ call[c].op = "query"
  /\ Returns(c)
  /\ stream' = Released(c)
  /\ UNCHANGED gw

NamesScanned(c) ==
  /\ CallAt(c, "scan") /\ call[c].op = "cross"
  /\ \E n \in UserDatabase : call' = [call EXCEPT ![c].pc = "each", ![c].left = n]
  /\ stream' = Released(c)
  /\ UNCHANGED gw

\* queryOnDatabase: a pool of its own per database, whose failure is its own.
NextDatabase(c) ==
  /\ CallAt(c, "each") /\ call[c].left > 0 /\ ~CallOver(c)
  /\ call' = [call EXCEPT ![c].left = @ - 1]
  /\ UNCHANGED <<gw, stream>>

CrossDone(c) ==
  /\ CallAt(c, "each") /\ (call[c].left = 0 \/ CallOver(c))
  /\ Returns(c)
  /\ UNCHANGED <<gw, stream>>

MarkUnhealthy(c) ==
  /\ CallAt(c, "mark") /\ gw.owner = NobodyHolds
  /\ gw' = [gw EXCEPT !.healthy = FALSE]
  /\ Returns(c)
  /\ UNCHANGED stream

----------------------------------------------------------------------------
\* The environment: the clock, each call's deadline, q and the shutdown.

SecondPasses ==
  /\ gw.recent
  /\ gw' = [gw EXCEPT !.recent = FALSE]
  /\ UNCHANGED <<stream, call>>

CallExpires(c) ==
  /\ ~CallAt(c, "idle") /\ ~call[c].expired
  /\ call' = [call EXCEPT ![c].expired = TRUE]
  /\ UNCHANGED <<gw, stream>>

CancelGateway ==
  /\ gw.closer = "open"
  /\ gw' = [gw EXCEPT !.closer = "canceled"]
  /\ UNCHANGED <<stream, call>>

\* Mutant: Close drops the pool without cancelling first.
CloseAtOnce ==
  /\ gw.owner = NobodyHolds /\ gw.pool # 0 /\ gw.opened < 2
  /\ gw' = [gw EXCEPT !.pool = 0, !.healthy = FALSE]
  /\ UNCHANGED <<stream, call>>

\* Close cancels, then takes the mutex; its wait for the pool is bounded.
CloseGateway ==
  /\ gw.closer = "canceled" /\ gw.owner = NobodyHolds
  /\ gw' = [gw EXCEPT !.closer = "closed", !.pool = 0, !.healthy = FALSE]
  /\ UNCHANGED <<stream, call>>

Connects(c) ==
  \/ EnsureHealthy(c)
  \/ EnsureThrottled(c)
  \/ EnsureOpens(c)
  \/ EnsureOpenFails(c)
  \/ PingStarts(c)
  \/ PingEnded(c)

Answers(c) ==
  \/ PingAnswered(c)
  \/ PingRefused(c)
  \/ \E ok \in BOOLEAN : KindAnswered(c, ok)
  \/ ExecDone(c)
  \/ RowsArrive(c)
  \/ StatementFails(c)

Works(c) ==
  \/ KindKnown(c)
  \/ AskKind(c)
  \/ KindEnded(c)
  \/ SendStatement(c)
  \/ StatementEnded(c)
  \/ RowsScanned(c)
  \/ NamesScanned(c)
  \/ NextDatabase(c)
  \/ CrossDone(c)

GatewayNext ==
  \/ \E c \in Caller :
       \/ \E op \in Operation : StartCall(c, op)
       \/ LockGateway(c)
       \/ Connects(c)
       \/ Answers(c)
       \/ Works(c)
       \/ MarkUnhealthy(c)
       \/ CallExpires(c)
  \/ SecondPasses
  \/ CancelGateway
  \/ CloseGateway

\* The scheduler runs a ready goroutine, Go's mutex starves nobody, and timers
\* fire.  The server owes nothing: Answers is not fair.
CallGoesOn(c) == Connects(c) \/ Works(c) \/ CallExpires(c)

GatewayFairness ==
  \A c \in Caller :
    /\ SF_gatewayVars(LockGateway(c))
    /\ SF_gatewayVars(MarkUnhealthy(c))
    /\ WF_gatewayVars(CallGoesOn(c))

GatewaySpec == GatewayInit /\ [][GatewayNext]_gatewayVars /\ GatewayFairness

----------------------------------------------------------------------------
\* At most one result stream is open through the gateway, whatever pool it
\* belongs to: a second one can give a monitor another's response.  Across a
\* shutdown this rests on Close cancelling before it drops the pool.
OneStream == Cardinality(stream) <= 1

\* Once q has cancelled the gateway no statement and no ping reaches the
\* server any more, whoever was already past ensure.
NothingAfterCancel ==
  [][gw.closer # "open" => stream' \subseteq stream]_gatewayVars

\* A pool that has answered a ping is given up only because the server
\* refused some statement: a caller's deadline or cancellation alone never
\* makes the other monitors reconnect.  (The refusal may be older than the
\* ping: a late markUnhealthy also gives up a pool that was just verified.)
DeadlinesBlameNobody ==
  gw.pool # 0 /\ gw.seen /\ ~gw.healthy => gw.refused

\* Every call returns, even when the server never answers and a caller pings
\* under the mutex every other caller needs.
GatewaySettled(c) == CallAt(c, "idle")

\* What the gateway promises its callers: one stream at a time, no traffic
\* after the cancellation, and no reconnect for a deadline.
GatewaySafety ==
  /\ [](GatewayTypeOK /\ OneStream /\ DeadlinesBlameNobody)
  /\ NothingAfterCancel
=============================================================================
