---------------------------- MODULE DetailRequests ----------------------------
(***************************************************************************)
(* The health dashboard's detail requests, src/internal/app/health_keys.go *)
(* The main loop opens a detail page for the selected SQL, draws it and    *)
(* closes it; each page has a loader goroutine that sends its patches into *)
(* one channel the loop drains when it draws.  Opening, closing, leaving   *)
(* the view and exit advance the request number and cancel the loader      *)
(* before; a patch of another number is dropped.  The exit request comes   *)
(* from the screen's input goroutine at any time.                          *)
(***************************************************************************)
EXTENDS Naturals, Sequences

CONSTANTS MaxRequests,   \* bound: pages opened, and times the view is entered
          PatchCount,    \* patches a loader sends, the last one with Done
          Capacity       \* healthDetailPatches' buffer (32 in the code)

ASSUME RequestsAssumption ==
         /\ MaxRequests \in Nat \ {0}
         /\ PatchCount \in Nat \ {0}
         /\ Capacity \in Nat \ {0}

VARIABLES view,      \* main loop: shown, selecting, detail (the request of
                     \* the open page, 0: none), the patches merged in it,
                     \* entered (how often) and last (the key the exit request
                     \* found being handled has been handled)
          request,   \* healthDetailRequestID, the one healthDetailCancel
                     \* belongs to (0: nil), pages opened, exitRequested and
                     \* whether requestExit has cancelled
          patches,   \* the channel: <<request, patch number>>
          loader     \* per page opened: its request, sent, canceled, ended

requestVars == <<view, request, patches, loader>>

Page == 1 .. MaxRequests

RequestsTypeOK ==
  /\ view.shown \in BOOLEAN /\ view.selecting \in BOOLEAN /\ view.detail \in Nat
  /\ request.id \in Nat /\ request.cancel \in Nat /\ request.exit \in BOOLEAN
  /\ Len(patches) <= Capacity
  /\ \A n \in Page : loader[n].sent \in 0 .. PatchCount

RequestsInit ==
  /\ view = [shown |-> FALSE, selecting |-> FALSE, detail |-> 0, merged |-> 0,
             entered |-> 0, last |-> FALSE]
  /\ request = [id |-> 0, cancel |-> 0, opened |-> 0, exit |-> FALSE, canceled |-> FALSE]
  /\ patches = <<>>
  /\ loader = [n \in Page |-> [id |-> 0, sent |-> 0, canceled |-> FALSE, ended |-> TRUE]]

\* The loop looks at the exit request before it handles a key: at most one
\* more key is handled after it was made.
Handles == ~view.last
Handled(v) == view' = [v EXCEPT !.last = request.exit]
\* Bound on the request numbers.
MaxId == 6 * MaxRequests
Canceled(id) ==
  [n \in Page |-> IF id # 0 /\ loader[n].id = id
                  THEN [loader[n] EXCEPT !.canceled = TRUE] ELSE loader[n]]
\* cancelHealthDetailLocked: a new number, and the old page's cancel to call.
Advanced == [request EXCEPT !.id = @ + 1, !.cancel = 0]

EnterHealthView ==
  /\ Handles /\ ~view.shown /\ view.entered < MaxRequests
  /\ Handled([view EXCEPT !.shown = TRUE, !.selecting = FALSE, !.detail = 0,
                          !.merged = 0, !.entered = @ + 1])
  /\ UNCHANGED <<request, patches, loader>>

ToggleSelection ==
  /\ Handles /\ view.shown /\ view.detail = 0
  /\ Handled([view EXCEPT !.selecting = ~@])
  /\ UNCHANGED <<request, patches, loader>>

\* Escape without a page: the view is left.
ExitHealthView ==
  /\ Handles /\ view.shown /\ view.detail = 0
  /\ request' = Advanced
  /\ loader' = Canceled(request.cancel)
  /\ Handled([view EXCEPT !.shown = FALSE, !.selecting = FALSE])
  /\ UNCHANGED patches

CloseDetail ==
  /\ Handles /\ view.shown /\ view.detail # 0
  /\ request' = Advanced
  /\ loader' = Canceled(request.cancel)
  /\ Handled([view EXCEPT !.detail = 0, !.merged = 0])
  /\ UNCHANGED patches

\* startHealthDetail: cancels the page before, and opens one unless the
\* program is exiting, all under healthDetailMu.
OpenDetail ==
  /\ Handles /\ view.shown /\ view.selecting /\ view.detail = 0
  /\ request.opened < MaxRequests /\ ~request.exit
  /\ LET id == request.id + 2
         n == request.opened + 1
     IN /\ request' = [request EXCEPT !.id = id, !.cancel = id, !.opened = n]
        /\ loader' = [Canceled(request.cancel) EXCEPT
                        ![n] = [id |-> id, sent |-> 0, canceled |-> FALSE, ended |-> FALSE]]
        /\ Handled([view EXCEPT !.detail = id, !.merged = 0])
  /\ UNCHANGED patches

OpenRefused ==
  /\ Handles /\ view.shown /\ view.selecting /\ view.detail = 0
  /\ request.exit /\ request.id < MaxId
  /\ request' = Advanced
  /\ loader' = Canceled(request.cancel)
  /\ Handled(view)
  /\ UNCHANGED patches

----------------------------------------------------------------------------
\* The loader: each patch is sent, or given up when its context is done.

SendPatch(n) ==
  /\ ~loader[n].ended /\ loader[n].sent < PatchCount /\ Len(patches) < Capacity
  /\ patches' = Append(patches, <<loader[n].id, loader[n].sent + 1>>)
  /\ loader' = [loader EXCEPT ![n].sent = @ + 1]
  /\ UNCHANGED <<view, request>>

LoaderEnds(n) ==
  /\ ~loader[n].ended /\ (loader[n].sent = PatchCount \/ loader[n].canceled)
  /\ loader' = [loader EXCEPT ![n].ended = TRUE]
  /\ UNCHANGED <<view, request, patches>>

\* Mutant: patches are taken as the open page's, whoever sent them.
AnyRequest(id) == ~request.exit /\ view.shown /\ view.detail # 0

WantedPatch(id) ==
  /\ id = request.id /\ ~request.exit
  /\ view.shown /\ view.detail # 0

\* applyHealthDetailPatches, one patch of the drain before a drawn frame.
ApplyPatch ==
  /\ ~view.last /\ view.shown /\ patches # <<>>
  /\ LET id == Head(patches)[1]
         patch == Head(patches)[2]
     IN IF WantedPatch(id)
        THEN /\ view' = [view EXCEPT !.merged = patch]
             /\ request' = [request EXCEPT !.cancel = IF patch = PatchCount THEN 0 ELSE @]
        ELSE UNCHANGED <<view, request>>
  /\ patches' = Tail(patches)
  /\ UNCHANGED loader

\* requestExit, from the input goroutine or the loop: the flag, then
\* cancelHealthDetail.
ExitRequested ==
  /\ ~request.exit
  /\ request' = [request EXCEPT !.exit = TRUE]
  /\ UNCHANGED <<view, patches, loader>>

ExitCancels ==
  /\ request.exit /\ ~request.canceled
  /\ request' = [Advanced EXCEPT !.canceled = TRUE]
  /\ loader' = Canceled(request.cancel)
  /\ UNCHANGED <<view, patches>>

RequestsNext ==
  \/ EnterHealthView
  \/ ToggleSelection
  \/ ExitHealthView
  \/ CloseDetail
  \/ OpenDetail
  \/ OpenRefused
  \/ \E n \in Page : SendPatch(n) \/ LoaderEnds(n)
  \/ ApplyPatch
  \/ ExitRequested
  \/ ExitCancels

\* The loop draws, goroutines run, and requestExit goes on to its cancels.
RequestsGoOn ==
  \/ ApplyPatch \/ ExitCancels
  \/ \E n \in Page : SendPatch(n) \/ LoaderEnds(n)

RequestsFairness == WF_requestVars(RequestsGoOn)

RequestsSpec == RequestsInit /\ [][RequestsNext]_requestVars /\ RequestsFairness

----------------------------------------------------------------------------
\* The patches of the open page are merged one after another from the first:
\* none of another page, none twice, none missing.
PatchesInOrder ==
  [][view.detail # 0 /\ view'.detail = view.detail /\ view'.merged # view.merged
       => view'.merged = view.merged + 1]_requestVars

\* At most one page's loader works uncancelled, and it is the open page's:
\* closing a page, leaving the view or opening another stops the queries of
\* the one before.
OneLoader ==
  \A n \in Page : loader[n].ended \/ loader[n].canceled \/ loader[n].sent = PatchCount
                   \/ loader[n].id = view.detail

\* Once the exit request has cancelled what it found, no loader works
\* uncancelled: one that was about to be opened saw the request.
ExitLeavesNone ==
  request.canceled => \A n \in Page : loader[n].ended \/ loader[n].canceled
                                       \/ loader[n].sent = PatchCount

\* No loader hangs on a full channel nobody drains any more.
RequestsSettled == \A n \in Page : loader[n].ended

\* What the view promises about its pages: one loader, none after the exit, and
\* the patches of the open page in order.
RequestsSafety ==
  /\ [](RequestsTypeOK /\ OneLoader /\ ExitLeavesNone)
  /\ PatchesInOrder
=============================================================================
