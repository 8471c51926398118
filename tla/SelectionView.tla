----------------------------- MODULE SelectionView -----------------------------
(***************************************************************************)
(* gstop's keys and the sessions they end: tui/screen.go, tui/input.go,    *)
(* app/session_keys.go, app/memory_keys.go, monitor/session_ops.go,        *)
(* session_details.go, session_blocktree.go and memory_ops.go.  The        *)
(* screen's pump goroutine tells the quit handler of a 'q' before it       *)
(* forwards the key; the views read keys, drain the rest and act.  The     *)
(* lists they act on are published by refreshes that go on meanwhile, and  *)
(* on the server sessions end and threads are reused while a prompt waits. *)
(***************************************************************************)
EXTENDS Naturals, Sequences, FiniteSets

CONSTANTS Thread,       \* server threads (pids)
          MaxSession,   \* bound: sessions that ever connect
          QueueSize     \* the screen's events channel (16 in the code)

ASSUME SelectionAssumption ==
         /\ IsFiniteSet(Thread) /\ Thread \subseteq Nat \ {0}
         /\ MaxSession \in Nat \ {0}
         /\ QueueSize \in Nat \ {0}

VARIABLES db,       \* per thread: its session (0: none); waits: the thread it
                    \* waits for (0: none); last: sessions connected so far
          panel,    \* view: the sub-view this behaviour uses (bound: one of
                    \* the two); its rows, and a refresh that has read its rows
          screen,   \* pump: the event in hand, told; queue; pressed: 'q' was
          keys,     \* the main loop: pc, and the answer of a prompt so far
          chosen,   \* what a prompt is about: kill, row, holder, and since: the
                    \* threads that blocked the row's since it was confirmed
          quit      \* exitRequested

selectionVars == <<db, panel, screen, keys, chosen, quit>>

Session == 1 .. MaxSession
NoRow == [pid |-> 0, sid |-> 0]
Row == [pid : Thread, sid : Session]
NoChoice == [kill |-> "none", row |-> NoRow, holder |-> 0, since |-> {}]

SelectionTypeOK ==
  /\ db.on \in [Thread -> 0 .. MaxSession] /\ db.waits \in [Thread -> Thread \cup {0}]
  /\ panel.rows \subseteq Row /\ panel.read \subseteq Row
  /\ Len(screen.queue) <= QueueSize
  /\ chosen.row.pid \in Thread \cup {0} /\ quit \in BOOLEAN

SelectionInit ==
  /\ db = [on |-> [t \in Thread |-> 0], waits |-> [t \in Thread |-> 0], last |-> 0]
  /\ \E v \in {"session", "memory"} :
       panel = [view |-> v, rows |-> {}, flight |-> FALSE, read |-> {}]
  /\ screen = [pump |-> "none", told |-> FALSE, queue |-> <<>>, pressed |-> FALSE]
  /\ keys = [pc |-> "loop", yes |-> FALSE]
  /\ chosen = NoChoice /\ quit = FALSE

(***************************************************************************)
(* The server                                                              *)
(***************************************************************************)
Blocking(d, row) ==
  IF row # NoRow /\ d.waits[row.pid] # 0 THEN {d.waits[row.pid]} ELSE {}
DbMoves(d) ==
  /\ db' = d
  /\ chosen' = IF chosen.kill = "holder"
               THEN [chosen EXCEPT !.since = @ \cup Blocking(d, chosen.row)] ELSE chosen
SessionGone(d, gone) ==
  [d EXCEPT !.on = [t \in Thread |-> IF t \in gone THEN 0 ELSE d.on[t]],
            !.waits = [t \in Thread |-> IF t \in gone \/ d.waits[t] \in gone
                                        THEN 0 ELSE d.waits[t]]]

SessionOpens(t) ==
  /\ db.on[t] = 0 /\ db.last < MaxSession
  /\ DbMoves([db EXCEPT !.on[t] = db.last + 1, !.last = @ + 1])
  /\ UNCHANGED <<panel, screen, keys, quit>>

Leaves(t) ==
  /\ db.on[t] # 0
  /\ DbMoves(SessionGone(db, {t}))
  /\ UNCHANGED <<panel, screen, keys, quit>>

Waits(t, h) ==
  /\ t # h /\ db.on[t] # 0 /\ db.on[h] # 0
  /\ db.waits[t] = 0 /\ db.waits[h] = 0
  /\ DbMoves([db EXCEPT !.waits[t] = h])
  /\ UNCHANGED <<panel, screen, keys, quit>>

Granted(t) ==
  /\ db.waits[t] # 0
  /\ DbMoves([db EXCEPT !.waits[t] = 0])
  /\ UNCHANGED <<panel, screen, keys, quit>>

(***************************************************************************)
(* The refreshes                                                           *)
(***************************************************************************)
Rows == {r \in Row : db.on[r.pid] = r.sid}

\* The session sub-view pauses the launches, and a refresh under way goes on;
\* the memory dashboard has its own goroutine, which nothing pauses.
RowsRead ==
  /\ ~panel.flight /\ (keys.pc = "loop" \/ panel.view = "memory")
  /\ panel' = [panel EXCEPT !.flight = TRUE, !.read = Rows]
  /\ UNCHANGED <<db, screen, keys, chosen, quit>>

\* handleSQLResult, MemoryMonitor.Refresh: all rows at once, under the mutex.
RowsPublished ==
  /\ panel.flight
  /\ panel' = [panel EXCEPT !.flight = FALSE, !.rows = panel.read, !.read = {}]
  /\ UNCHANGED <<db, screen, keys, chosen, quit>>

(***************************************************************************)
(* The screen                                                              *)
(***************************************************************************)
\* The user presses a key; 'q' once.
Polled ==
  /\ screen.pump = "none"
  /\ \/ screen' = [screen EXCEPT !.pump = "key", !.told = FALSE]
     \/ /\ ~screen.pressed
        /\ screen' = [screen EXCEPT !.pump = "q", !.told = FALSE, !.pressed = TRUE]
  /\ UNCHANGED <<db, panel, keys, chosen, quit>>

\* The quit handler runs in the pump, before the key is forwarded.
NotifyQuit ==
  /\ screen.pump = "q" /\ ~screen.told
  /\ quit' = TRUE
  /\ screen' = [screen EXCEPT !.told = TRUE]
  /\ UNCHANGED <<db, panel, keys, chosen>>

Forwards ==
  /\ screen.pump # "none" /\ (screen.pump = "q" => quit)
  /\ Len(screen.queue) < QueueSize
  /\ screen' = [screen EXCEPT !.queue = Append(@, screen.pump), !.pump = "none"]
  /\ UNCHANGED <<db, panel, keys, chosen, quit>>

Key == Head(screen.queue)
GetKey ==
  /\ screen.queue # <<>>
  /\ screen' = [screen EXCEPT !.queue = Tail(@)]
\* GetKey, then FlushInput.
GetKeyAndFlush ==
  /\ screen.queue # <<>>
  /\ screen' = [screen EXCEPT !.queue = <<>>]
Goes(at) == keys' = [keys EXCEPT !.pc = at]

(***************************************************************************)
(* The main loop and the sub-views                                         *)
(***************************************************************************)
LoopLooks ==
  /\ keys.pc = "loop" /\ quit
  /\ Goes("quit")
  /\ UNCHANGED <<db, panel, screen, chosen, quit>>

LoopKey ==
  /\ keys.pc = "loop" /\ GetKey
  /\ IF quit \/ Key = "q" THEN Goes("quit") /\ quit' = TRUE
     ELSE (\E at \in {"loop", "view"} : Goes(at)) /\ UNCHANGED quit
  /\ UNCHANGED <<db, panel, chosen>>

\* Looks at the exit request, then waits for a key without a time limit.
SubViewLooks ==
  /\ keys.pc = "view"
  /\ Goes(IF quit THEN "loop" ELSE "wait")
  /\ UNCHANGED <<db, panel, screen, chosen, quit>>

SubViewKey ==
  /\ keys.pc = "wait" /\ GetKey
  /\ IF quit \/ Key = "q" THEN Goes("loop") /\ quit' = TRUE
     ELSE Goes("act") /\ UNCHANGED quit
  /\ UNCHANGED <<db, panel, chosen>>

Flushed == screen' = [screen EXCEPT !.queue = <<>>]

\* A key that moves the cursor or sorts, or one that leaves the sub-view.
SubViewStays ==
  /\ keys.pc = "act" /\ Flushed
  /\ \E at \in {"view", "loop"} : Goes(at)
  /\ UNCHANGED <<db, panel, chosen, quit>>

\* selectedSessionRow: the row is copied under the panel's mutex before the
\* prompt; k ends its session, K the sessions that run its SQL.  It is the row
\* under the cursor when the key is handled: a refresh may have published since
\* the list was drawn.
ChooseRow ==
  /\ keys.pc = "act" /\ panel.view = "session" /\ Flushed
  /\ \E row \in panel.rows, kill \in {"session", "same sql"} :
       chosen' = [NoChoice EXCEPT !.kill = kill, !.row = row]
  /\ keys' = [pc |-> "prompt", yes |-> FALSE]
  /\ UNCHANGED <<db, panel, quit>>

\* memoryTerminateTarget: a row of the session panel, whose thread is not
\* known, or of the thread panel.
ChooseMemoryRow ==
  /\ keys.pc = "act" /\ panel.view = "memory" /\ Flushed
  /\ \E row \in panel.rows :
       \/ chosen' = [NoChoice EXCEPT !.kill = "session", !.row = [row EXCEPT !.pid = 0]]
       \/ chosen' = [NoChoice EXCEPT !.kill = "thread", !.row = row]
  /\ keys' = [pc |-> "prompt", yes |-> FALSE]
  /\ UNCHANGED <<db, panel, quit>>

\* TerminateConfirmPassed: the last key before Enter decides; 'q' is an answer.
Prompted ==
  /\ keys.pc = "prompt" /\ GetKeyAndFlush
  /\ \/ Key = "key" /\ keys' = [keys EXCEPT !.pc = IF keys.yes THEN "kill" ELSE "view"]
     \/ Key = "key" /\ keys' = [keys EXCEPT !.yes = TRUE]
     \/ keys' = [keys EXCEPT !.yes = FALSE]
  /\ chosen' = IF keys'.pc = "kill" /\ chosen.kill = "holder"
               THEN [chosen EXCEPT !.since = Blocking(db, chosen.row)]
               ELSE IF keys'.pc = "view" THEN NoChoice ELSE chosen
  /\ UNCHANGED <<db, panel, quit>>

(***************************************************************************)
(* The details of a session and its block tree                             *)
(***************************************************************************)
ShowDetails ==
  /\ keys.pc = "act" /\ panel.view = "session" /\ Flushed
  /\ \E row \in panel.rows : chosen' = [NoChoice EXCEPT !.row = row]
  /\ Goes("details")
  /\ UNCHANGED <<db, panel, quit>>

\* printBlockedTree: who the row's thread waits for, or itself if it blocks.
TreeRead(row) ==
  IF db.waits[row.pid] # 0 THEN db.waits[row.pid]
  ELSE IF \E t \in Thread : db.waits[t] = row.pid THEN row.pid ELSE 0

DrawDetails ==
  /\ keys.pc = "details"
  /\ chosen' = [chosen EXCEPT !.holder = TreeRead(chosen.row)]
  /\ Goes("menu")
  /\ UNCHANGED <<db, panel, screen, quit>>

\* A page of text, or leaving; no look at the exit request here.
DetailKey ==
  /\ keys.pc = "menu" /\ GetKeyAndFlush
  /\ \/ Key = "key" /\ Goes("page") /\ UNCHANGED chosen
     \/ Goes("view") /\ chosen' = NoChoice
  /\ UNCHANGED <<db, panel, quit>>

PageKey ==
  /\ keys.pc = "page" /\ GetKeyAndFlush
  /\ Goes("details")
  /\ UNCHANGED <<db, panel, chosen, quit>>

\* 3 and 6 of the menu.
DetailKill ==
  /\ keys.pc = "menu" /\ GetKeyAndFlush /\ Key = "key"
  /\ \/ chosen' = [chosen EXCEPT !.kill = "session"]
     \/ chosen.holder # 0 /\ chosen' = [chosen EXCEPT !.kill = "holder"]
  /\ keys' = [pc |-> "prompt", yes |-> FALSE]
  /\ UNCHANGED <<db, panel, quit>>

(***************************************************************************)
(* The kills                                                               *)
(***************************************************************************)
SqlOf(sid) == sid % 2   \* the unique SQL id; 0 is no id

Killed(gone) ==
  /\ db' = SessionGone(db, gone)
  /\ chosen' = NoChoice
  /\ Goes("view")
  /\ UNCHANGED <<panel, screen, quit>>

\* Mutant: pg_terminate_backend by the thread alone.
KillsByThread ==
  /\ keys.pc = "kill" /\ chosen.kill = "session"
  /\ Killed(IF chosen.row.pid = 0 THEN {t \in Thread : db.on[t] = chosen.row.sid}
            ELSE {chosen.row.pid})

\* pg_terminate_session(pid, sessionid), with pid 0 from the memory panel.
KillSession ==
  /\ keys.pc = "kill" /\ chosen.kill = "session"
  /\ Killed({t \in Thread : /\ db.on[t] = chosen.row.sid
                            /\ chosen.row.pid \in {0, t}})

\* TerminateAll: every session that now runs the row's SQL.
KillSameSql ==
  /\ keys.pc = "kill" /\ chosen.kill = "same sql"
  /\ Killed(IF SqlOf(chosen.row.sid) = 0 THEN {}
            ELSE {t \in Thread : db.on[t] # 0 /\ SqlOf(db.on[t]) = SqlOf(chosen.row.sid)})

\* A memory panel's thread, by its id alone.
KillThread ==
  /\ keys.pc = "kill" /\ chosen.kill = "thread"
  /\ Killed({chosen.row.pid})

\* terminateBlockerSession: the row's own thread, or the one that blocks it
\* still when it is read again.
HolderRead ==
  /\ keys.pc = "kill" /\ chosen.kill = "holder"
  /\ IF chosen.row.pid = chosen.holder \/ db.waits[chosen.row.pid] = chosen.holder
     THEN Goes("kill holder") /\ UNCHANGED chosen
     ELSE Goes("view") /\ chosen' = NoChoice
  /\ UNCHANGED <<db, panel, screen, quit>>

KillHolder ==
  /\ keys.pc = "kill holder"
  /\ Killed({chosen.holder})

DbStep ==
  \E t \in Thread :
    \/ SessionOpens(t)
    \/ Leaves(t)
    \/ \E h \in Thread : Waits(t, h)
    \/ Granted(t)

RefreshesStep == RowsRead \/ RowsPublished
PumpStep == NotifyQuit \/ Forwards
KeyStep ==
  \/ LoopLooks
  \/ LoopKey
  \/ SubViewLooks
  \/ SubViewKey
  \/ SubViewStays
  \/ ChooseRow
  \/ ChooseMemoryRow
  \/ Prompted
  \/ ShowDetails
  \/ DrawDetails
  \/ DetailKey
  \/ PageKey
  \/ DetailKill
  \/ KillSession
  \/ KillSameSql
  \/ KillThread
  \/ HolderRead
  \/ KillHolder

SelectionNext == DbStep \/ RefreshesStep \/ Polled \/ PumpStep \/ KeyStep

\* The pump and the main loop run; the user's keys are not promised.
SelectionFairness == WF_selectionVars(PumpStep) /\ WF_selectionVars(KeyStep)

SelectionSpec == SelectionInit /\ [][SelectionNext]_selectionVars /\ SelectionFairness

(***************************************************************************)
(* Properties                                                              *)
(***************************************************************************)
GoneSessions == {db.on[t] : t \in {u \in Thread : db.on[u] # 0 /\ db'.on[u] = 0}}

\* A confirmed kill of a session ends the session the user chose before the
\* prompt or nobody: not another one that has its thread by now, and not one
\* that a refresh has put under the cursor meanwhile.
KillsOnlyChosen ==
  [][KillSession => GoneSessions \subseteq {chosen.row.sid}]_selectionVars

\* The blocker's kill ends a thread that has blocked the session after the
\* user confirmed; a holder that let go before is spared.
HolderStillBlocked ==
  [][(KillHolder /\ chosen.holder # chosen.row.pid) =>
       chosen.holder \in chosen.since]_selectionVars

\* A 'q' is not lost, whichever view drains the input after it: the program
\* leaves, unless it is in a page or a prompt that waits for its own key.
SelectionSettled ==
  quit => keys.pc \in {"quit", "prompt", "menu", "page"}

\* What a confirmed kill promises: it ends the chosen session, or a holder that
\* still blocks it.
SelectionSafety ==
  /\ [](SelectionTypeOK)
  /\ KillsOnlyChosen
  /\ HolderStillBlocked
=============================================================================
