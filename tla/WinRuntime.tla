------------------------------ MODULE WinRuntime ------------------------------
(***************************************************************************)
(* runtime/win32.c: the window, its message loop and double buffering.     *)
(*                                                                         *)
(* One thread runs the Peryan program; the messages of the window are only *)
(* dispatched while the thread is inside ProcessWindowMessages, which all  *)
(* drawing and waiting calls end in, or inside a message box.  The context *)
(* `ctx' is freed by the window procedure when the window is destroyed,    *)
(* underneath the runtime function that is dispatching.                    *)
(*                                                                         *)
(* The program is not fixed: in state "user" it makes any call it likes.   *)
(* Windows (the message queue, painting, message boxes) is external and    *)
(* modelled from how win32.c uses it.  PeekMessage delivers what has been  *)
(* posted, then WM_QUIT, then input, then WM_PAINT.                        *)
(*                                                                         *)
(* Abstracted: text layout and cursor, mouse position, fonts, handles.     *)
(***************************************************************************)
EXTENDS Naturals, Sequences

CONSTANTS
  Pixels, Colors, White, Black, NoPicture, \* as in Canvas
  MaxInput, \* bound: input messages waiting in the queue
  MaxWait   \* bound: rounds of one wait or await

ASSUME WinRuntimeAssumption ==
  /\ White \in Colors /\ Black \in Colors
  /\ NoPicture \notin [Pixels -> Colors]
  /\ MaxInput \in Nat /\ MaxWait \in Nat

VARIABLES
  pc,          \* what the thread is about to do
  caller,      \* who goes on when ProcessWindowMessages returns
  ticks,       \* rounds left in wait or await
  ctxLive,     \* ctx # NULL
  hWnd,        \* ctx->hWnd # NULL
  initialized, \* ctx->isWindowBufferInitialized
  redraw,      \* ctx->redraw
  buffer,      \* the bitmap in ctx->hBufferDC
  redrawBuf,   \* the bitmap in ctx->hRedrawDC
  ink,         \* ginfo_r, ginfo_g, ginfo_b
  window,      \* the state of the window
  screen,      \* the client area of the window
  dirty,       \* the window has an update region
  exposed,     \* part of it is there because the system uncovered the window
  closePosted, \* WM_CLOSE is in the posted queue
  input,       \* the input queue
  quit         \* PostQuitMessage has been called

bitmaps == <<redraw, buffer, redrawBuf, ink>>
context == <<ctxLive, hWnd, initialized>>
desktop == <<window, screen, dirty, exposed>>
queue == <<closePosted, input, quit>>
control == <<pc, caller, ticks>>
vars == <<control, context, bitmaps, desktop, queue>>

Pictures == [Pixels -> Colors]
Blank == [p \in Pixels |-> White]
Painted(pic, S, c) == [p \in Pixels |-> IF p \in S THEN c ELSE pic[p]]

Init ==
  /\ pc = "start" /\ caller = "user" /\ ticks = 0
  /\ ctxLive = FALSE /\ hWnd = FALSE /\ initialized = FALSE
  /\ redraw = 1 /\ buffer = NoPicture /\ redrawBuf = NoPicture /\ ink = Black
  /\ window = "none" /\ screen = NoPicture /\ dirty = FALSE /\ exposed = FALSE
  /\ closePosted = FALSE /\ input = <<>> /\ quit = FALSE

-----------------------------------------------------------------------------
(* Helpers of the runtime. *)

\* AbortWithErrorMessage shows a message box; ExitProcess(1) follows it.
Abort == pc' = "msgbox" /\ UNCHANGED <<caller, ticks>>

\* ProcessWindowMessages is entered; `next' goes on afterwards.
Pump(next) == pc' = "pump" /\ caller' = next

\* RefreshMainDC, called by `next'.
RefreshMainDC_NoPump(next) ==
  /\ pc' = next
  /\ dirty' = (redraw' = 1 \/ dirty)
  /\ UNCHANGED caller
RefreshMainDC(next) ==
  IF redraw' = 0 THEN pc' = next /\ UNCHANGED <<caller, dirty>>
                 ELSE dirty' = TRUE /\ Pump(next)

GetCurrentDC == IF redraw = 1 THEN buffer ELSE redrawBuf

-----------------------------------------------------------------------------
(* Starting up. *)

\* InitializeWinPeryanContext, or PRMalloc fails.
InitializeWinPeryanContext ==
  /\ pc = "start"
  /\ \/ pc' = "register" /\ ctxLive' = TRUE /\ UNCHANGED <<caller, ticks>>
     \/ Abort /\ UNCHANGED ctxLive
  /\ UNCHANGED <<hWnd, initialized, bitmaps, desktop, queue>>

\* RegisterClass, then CreateWindow, which sends WM_CREATE before it returns;
\* or one of them fails.
InitializeWindow ==
  /\ pc = "register"
  /\ \/ pc' = "create" /\ window' = "hidden" /\ UNCHANGED <<caller, ticks>>
     \/ Abort /\ UNCHANGED window
  /\ UNCHANGED <<context, bitmaps, screen, dirty, exposed, queue>>

\* WM_CREATE; ctx->hWnd is still NULL.
InitializeWindowBuffer ==
  /\ pc = "create"
  /\ \/ /\ pc' = "created" /\ UNCHANGED <<caller, ticks>>
        /\ buffer' = Blank /\ redrawBuf' = Blank /\ initialized' = TRUE
     \/ Abort /\ UNCHANGED <<buffer, redrawBuf, initialized>>
  /\ UNCHANGED <<ctxLive, hWnd, redraw, ink, desktop, queue>>

\* CreateWindow returns and the window is shown.
ShowWindow ==
  /\ pc = "created"
  /\ pc' = "update"
  /\ hWnd' = TRUE
  /\ window' = "shown" /\ screen' = Blank /\ dirty' = TRUE
  /\ UNCHANGED <<caller, ticks, ctxLive, initialized, bitmaps, exposed, queue>>

\* WM_PAINT: BeginPaint validates the window, BitBlt copies the buffer.
Paint ==
  /\ screen' = buffer /\ dirty' = FALSE /\ exposed' = FALSE
  /\ UNCHANGED window

\* UpdateWindow calls the window procedure directly.
UpdateWindow ==
  /\ pc = "update"
  /\ pc' = "ready" /\ UNCHANGED <<caller, ticks>>
  /\ Paint
  /\ UNCHANGED <<context, bitmaps, queue>>

\* The loop of WinMain ends at once: WM_CREATE has been handled by now.
PeryanMain ==
  /\ pc = "ready"
  /\ initialized
  /\ pc' = "user"
  /\ UNCHANGED <<caller, ticks, context, bitmaps, desktop, queue>>

-----------------------------------------------------------------------------
(* The calls of the program. *)

\* color
SetColor ==
  /\ pc = "user"
  /\ ink' \in Colors
  /\ UNCHANGED <<control, context, redraw, buffer, redrawBuf, desktop, queue>>

\* pget makes the colour of a point the current one.
PGet ==
  /\ pc = "user"
  /\ \E p \in Pixels : ink' = GetCurrentDC[p]
  /\ UNCHANGED <<control, context, redraw, buffer, redrawBuf, desktop, queue>>

\* mes, boxf and pset: some points of the current bitmap take the colour.
DrawPoints ==
  /\ pc = "user"
  /\ \E S \in SUBSET Pixels :
       IF redraw = 1
         THEN buffer' = Painted(buffer, S, ink) /\ UNCHANGED redrawBuf
         ELSE redrawBuf' = Painted(redrawBuf, S, ink) /\ UNCHANGED buffer
  /\ UNCHANGED <<ticks, context, redraw, ink, window, screen, exposed, queue>>
  /\ RefreshMainDC("user")

\* redraw 1, from either mode.
RedrawOn_RefreshFirst ==
  /\ buffer' = GetCurrentDC
  /\ redraw' = redraw
  /\ RefreshMainDC("redraw")
RedrawOn ==
  /\ buffer' = GetCurrentDC
  /\ redraw' = 1
  /\ RefreshMainDC("redraw")

Redraw1 ==
  /\ pc = "user"
  /\ RedrawOn
  /\ UNCHANGED <<ticks, context, redrawBuf, ink, window, screen, exposed, queue>>

\* ... and its last assignment, after the messages have been dispatched.
Redraw1End ==
  /\ pc = "redraw"
  /\ pc' = "user"
  /\ redraw' = 1
  /\ UNCHANGED <<caller, ticks, context, buffer, redrawBuf, ink, desktop, queue>>

\* redraw 0: the hidden bitmap takes over what has been drawn so far.
SavedBuffer_Kept == redrawBuf
SavedBuffer == GetCurrentDC

Redraw0 ==
  /\ pc = "user"
  /\ redraw' = 0
  /\ redrawBuf' = SavedBuffer
  /\ UNCHANGED <<control, context, buffer, ink, desktop, queue>>

\* wait for n rounds, or await: its last round only dispatches messages.
Wait ==
  /\ pc = "user"
  /\ \E n \in 1..MaxWait : ticks' = n
  /\ pc' = "sleep" /\ caller' = "wait"
  /\ UNCHANGED <<context, bitmaps, desktop, queue>>

\* A wrong argument, or memory or a font that cannot be had.
RuntimeError ==
  /\ pc = "user"
  /\ Abort
  /\ UNCHANGED <<context, bitmaps, desktop, queue>>

\* end
End ==
  /\ pc = "user"
  /\ quit' = TRUE
  /\ Pump("user")
  /\ UNCHANGED <<ticks, context, bitmaps, desktop, closePosted, input>>

\* The program calls stop, or PeryanMain returns and WinMain does.
Stop ==
  /\ pc = "user"
  /\ pc' = "sleep" /\ caller' = "stop"
  /\ UNCHANGED <<ticks, context, bitmaps, desktop, queue>>

\* The body of the loops of stop, wait and await.
AfterSleep_Again == pc' = "sleep"
AfterSleep == pc' = "pump"

Sleep ==
  /\ pc = "sleep"
  /\ AfterSleep
  /\ UNCHANGED <<caller, ticks, context, bitmaps, desktop, queue>>

-----------------------------------------------------------------------------
(* Dispatching messages: ProcessWindowMessages and the message box.         *)

Dispatching == pc \in {"pump", "msgbox"}

\* DefWindowProc answers WM_CLOSE with DestroyWindow, which sends WM_DESTROY:
\* PostQuitMessage(0), FinalizeWinPeryanContext.  Windows drops what is queued.
QuitOnDestroy_Missing == quit
QuitOnDestroy == TRUE

CloseWindow ==
  /\ window' = "destroyed" /\ dirty' = FALSE /\ exposed' = FALSE
  /\ ctxLive' = FALSE /\ hWnd' = FALSE /\ initialized' = FALSE
  /\ quit' = QuitOnDestroy /\ closePosted' = FALSE /\ input' = <<>>
  /\ UNCHANGED <<control, bitmaps, screen>>

DispatchPosted == Dispatching /\ closePosted /\ CloseWindow

\* GetMessage returns 0 for WM_QUIT: ExitProcess(msg.wParam).
DispatchQuit ==
  /\ pc = "pump"
  /\ ~closePosted /\ quit
  /\ pc' = "exited"
  /\ UNCHANGED <<caller, ticks, context, bitmaps, desktop, queue>>

DispatchClick ==
  /\ Dispatching
  /\ ~closePosted /\ ~quit
  /\ input # <<>> /\ Head(input) = "CLOSE"
  /\ CloseWindow

\* WM_MOUSEMOVE and WM_MOUSEWHEEL.
DispatchMouse ==
  /\ Dispatching
  /\ ~closePosted /\ ~quit
  /\ input # <<>> /\ Head(input) = "MOUSE"
  /\ input' = Tail(input)
  /\ UNCHANGED <<control, context, bitmaps, desktop, closePosted, quit>>

DispatchPaint ==
  /\ Dispatching
  /\ ~closePosted /\ ~quit /\ input = <<>> /\ dirty
  /\ Paint
  /\ UNCHANGED <<control, context, bitmaps, queue>>

\* PeekMessage finds nothing and ProcessWindowMessages returns.
PumpReturns_AfterOne == TRUE
PumpReturns == ~closePosted /\ ~quit /\ input = <<>> /\ ~dirty

\* wait counts its argument down to 0.
MoreRounds == ticks - 1 > 0

PumpEnd ==
  /\ pc = "pump"
  /\ PumpReturns
  /\ pc' = CASE caller = "stop" -> "sleep"
             [] caller = "wait" -> IF MoreRounds THEN "sleep" ELSE "user"
             [] OTHER           -> caller
  /\ ticks' = IF caller = "wait" THEN ticks - 1 ELSE ticks
  /\ UNCHANGED <<caller, context, bitmaps, desktop, queue>>

\* The message box is answered, or ends because of WM_QUIT: ExitProcess(1).
MessageBoxEnd ==
  /\ pc = "msgbox"
  /\ pc' = "aborted"
  /\ UNCHANGED <<caller, ticks, context, bitmaps, desktop, queue>>

-----------------------------------------------------------------------------
(* The user and the system. *)

Alive == window = "shown" /\ pc \notin {"exited", "aborted"}

PostClose ==
  /\ Alive /\ ~closePosted
  /\ closePosted' = TRUE
  /\ UNCHANGED <<control, context, bitmaps, desktop, input, quit>>

Input ==
  /\ Alive /\ Len(input) < MaxInput
  /\ \E m \in {"MOUSE", "CLOSE"} : input' = Append(input, m)
  /\ UNCHANGED <<control, context, bitmaps, desktop, closePosted, quit>>

\* The window is uncovered: it is blank until it is painted.
Expose ==
  /\ Alive
  /\ screen' = Blank /\ dirty' = TRUE /\ exposed' = TRUE
  /\ UNCHANGED <<control, context, bitmaps, window, queue>>

-----------------------------------------------------------------------------
Runtime ==
  \/ InitializeWinPeryanContext \/ InitializeWindow \/ InitializeWindowBuffer
  \/ ShowWindow \/ UpdateWindow \/ PeryanMain
  \/ Redraw1End \/ Sleep
  \/ DispatchPosted \/ DispatchQuit \/ DispatchClick \/ DispatchMouse
  \/ DispatchPaint \/ PumpEnd

Program ==
  \/ SetColor \/ PGet \/ DrawPoints \/ Redraw1 \/ Redraw0
  \/ Wait \/ RuntimeError \/ End \/ Stop

Environment == PostClose \/ Input \/ Expose \/ MessageBoxEnd

Ended == pc \in {"exited", "aborted"} /\ UNCHANGED vars

Next == Runtime \/ Program \/ Environment \/ Ended

Spec == Init /\ [][Next]_vars

\* The thread is scheduled; the program need not make any call, nor the user
\* answer a message box.
FairSpec == Spec /\ WF_vars(Runtime)

-----------------------------------------------------------------------------
(* Properties. *)

PCs == {"start", "register", "create", "created", "update", "ready", "user",
        "redraw", "sleep", "pump", "msgbox", "exited", "aborted"}

\* Types of the variables.
TypeOK ==
  /\ pc \in PCs /\ caller \in {"user", "redraw", "wait", "stop"} /\ ticks \in Nat
  /\ ctxLive \in BOOLEAN /\ hWnd \in BOOLEAN /\ initialized \in BOOLEAN
  /\ redraw \in {0, 1} /\ ink \in Colors
  /\ buffer \in Pictures \cup {NoPicture}
  /\ redrawBuf \in Pictures \cup {NoPicture}
  /\ window \in {"none", "hidden", "shown", "destroyed"}
  /\ screen \in Pictures \cup {NoPicture}
  /\ dirty \in BOOLEAN /\ exposed \in BOOLEAN
  /\ closePosted \in BOOLEAN /\ quit \in BOOLEAN
  /\ input \in Seq({"MOUSE", "CLOSE"})

\* ctx is never dereferenced once WM_DESTROY has freed it, although it is freed
\* below the runtime function that is dispatching messages: wherever the next
\* step reads ctx, or could be a WM_PAINT that does, ctx is there.
ContextIsLive ==
  /\ pc \in {"register", "create", "created", "update", "ready", "user", "redraw"}
       => ctxLive
  /\ Dispatching /\ dirty => ctxLive /\ hWnd

\* After end, or after the window has been destroyed, no statement of the
\* program runs any more: ProcessWindowMessages never returns to it.
QuitIsFinal == quit => pc \in {"pump", "msgbox", "exited", "aborted"}

\* A window without an update region shows the buffer: every change of the
\* buffer, by a drawing call or by redraw, also invalidates the window.
ScreenShowsBuffer == window = "shown" /\ ~dirty => screen = buffer

\* A drawing call returns only when what it drew is on the screen; the window
\* may need painting then only because the system has uncovered it.
ShownBeforeReturning == pc = "user" /\ dirty => exposed

\* Why the properties above hold: an inductive invariant.  Until the window is
\* shown the context is being built; from then on it lives as long as the
\* window, and when the window is destroyed nothing is queued but WM_QUIT.
Building ==
  /\ pc \in {"start", "register", "create", "created"} => window # "shown"
  /\ pc \in {"start", "register", "create"} =>
       redraw = 1 /\ buffer = NoPicture /\ redrawBuf = NoPicture
  /\ pc \in {"register", "create"} => ctxLive
  /\ pc = "created" => /\ ctxLive /\ initialized
                       /\ buffer \in Pictures /\ redrawBuf \in Pictures

Inv ==
  /\ TypeOK
  /\ Building
  /\ window = "shown" => /\ ctxLive /\ hWnd /\ initialized
                         /\ buffer \in Pictures /\ redrawBuf \in Pictures
  /\ dirty \/ closePosted \/ input # <<>> => window = "shown"
  /\ pc \in {"update", "ready", "user", "redraw", "sleep"} => window = "shown"
  /\ pc = "pump" => window = "shown" \/ quit
  /\ QuitIsFinal
  /\ pc = "redraw" \/ (pc = "pump" /\ caller = "redraw") => redraw = 1
  /\ pc \in {"pump", "sleep"} /\ caller = "wait" => ticks > 0
  /\ pc = "sleep" => caller \in {"wait", "stop"}
  /\ pc \in {"ready", "user", "redraw"} /\ dirty => exposed
  /\ ScreenShowsBuffer

\* The two bitmaps implement one picture, of which redraw 0 holds back changes.
Canvas == INSTANCE Canvas WITH
  mode <- redraw, picture <- GetCurrentDC, published <- buffer

\* Whatever the order of drawing, mode switches, paints and exposures, pget and
\* the window see what the abstract canvas has.
ImplementsCanvas == Canvas!CanvasSpec

\* Asking the window to close, or calling end, ends the process while the
\* runtime is waiting, although WM_QUIT has to be found by the same loop that
\* dispatched the message that posted it.
CloseRequested == quit \/ closePosted \/ \E i \in DOMAIN input : input[i] = "CLOSE"

ClosingEndsTheProcess ==
  pc \in {"sleep", "pump"} /\ CloseRequested ~> pc \in {"exited", "aborted"}
==============================================================================
