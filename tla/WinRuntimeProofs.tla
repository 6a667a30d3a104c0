--------------------------- MODULE WinRuntimeProofs ---------------------------
(***************************************************************************)
(* Proofs about WinRuntime, for any window, any colours, any queue bound:  *)
(* its invariant is inductive, its safety properties follow from it, and   *)
(* its two bitmaps implement Canvas.                                       *)
(***************************************************************************)
EXTENDS WinRuntime, TLAPS

\* Filling points of a picture with a colour gives a picture.
LEMMA PaintedType ==
  ASSUME NEW pic \in Pictures, NEW S, NEW c \in Colors
  PROVE  Painted(pic, S, c) \in Pictures
PROOF BY DEF Painted, Pictures

LEMMA BlankType == Blank \in Pictures
PROOF BY WinRuntimeAssumption DEF Blank, Pictures

\* The bitmap the program draws on.
LEMMA CurrentType ==
  ASSUME buffer \in Pictures, redrawBuf \in Pictures
  PROVE  GetCurrentDC \in Pictures
PROOF BY DEF GetCurrentDC

LEMMA EmptyInput == <<>> \in Seq({"MOUSE", "CLOSE"})
PROOF OBVIOUS

-----------------------------------------------------------------------------
(* The invariant is inductive. *)

LEMMA InitInv == Init => Inv
PROOF
  <1> SUFFICES ASSUME Init PROVE Inv
    OBVIOUS
  <1>1. TypeOK
    <2>1. /\ pc \in PCs /\ caller \in {"user", "redraw", "wait", "stop"} /\ ticks \in Nat
          /\ window \in {"none", "hidden", "shown", "destroyed"}
      BY DEF Init, PCs
    <2>2. /\ ctxLive \in BOOLEAN /\ hWnd \in BOOLEAN /\ initialized \in BOOLEAN
          /\ dirty \in BOOLEAN /\ exposed \in BOOLEAN
          /\ closePosted \in BOOLEAN /\ quit \in BOOLEAN
      BY DEF Init
    <2>3. /\ redraw \in {0, 1} /\ ink \in Colors
          /\ buffer \in Pictures \cup {NoPicture} /\ redrawBuf \in Pictures \cup {NoPicture}
          /\ screen \in Pictures \cup {NoPicture}
      BY WinRuntimeAssumption DEF Init
    <2>4. input \in Seq({"MOUSE", "CLOSE"})
      BY EmptyInput DEF Init
    <2>. QED  BY <2>1, <2>2, <2>3, <2>4 DEF TypeOK
  <1>2. ~ctxLive /\ ~dirty /\ ~closePosted /\ ~quit
    BY Zenon DEF Init
  <1>. QED  BY <1>1, <1>2 DEF Init, Inv, Building, QuitIsFinal, ScreenShowsBuffer

LEMMA StartingStep ==
  ASSUME Inv,
         \/ InitializeWinPeryanContext \/ InitializeWindow
         \/ InitializeWindowBuffer \/ ShowWindow \/ UpdateWindow \/ PeryanMain
  PROVE  Inv'
PROOF
  <1> USE DEF Inv, TypeOK, PCs, Building, QuitIsFinal, ScreenShowsBuffer,
              control, context, bitmaps, desktop, queue, Abort
  <1>1. CASE InitializeWinPeryanContext
    <2>1. TypeOK'
      <3>1. pc' \in PCs /\ caller' = caller /\ ticks' = ticks /\ ctxLive' \in BOOLEAN
        BY <1>1 DEF InitializeWinPeryanContext
      <3>2. /\ hWnd' = hWnd /\ initialized' = initialized
            /\ redraw' = redraw /\ buffer' = buffer /\ redrawBuf' = redrawBuf /\ ink' = ink
            /\ window' = window /\ screen' = screen /\ dirty' = dirty /\ exposed' = exposed
            /\ closePosted' = closePosted /\ input' = input /\ quit' = quit
        BY <1>1 DEF InitializeWinPeryanContext
      <3>. QED  BY <3>1, <3>2
    <2>2. Building' /\ ~dirty' /\ ~closePosted' /\ input' = <<>> /\ window' # "shown"
      BY <1>1 DEF InitializeWinPeryanContext
    <2>. QED  BY <1>1, <2>1, <2>2 DEF InitializeWinPeryanContext
  <1>2. CASE InitializeWindow
    BY <1>2 DEF InitializeWindow
  <1>3. CASE InitializeWindowBuffer
    <2>1. /\ buffer' \in Pictures \cup {NoPicture} /\ redrawBuf' \in Pictures \cup {NoPicture}
          /\ initialized' \in BOOLEAN
          /\ pc' = "created" => /\ initialized' /\ buffer' \in Pictures
                                /\ redrawBuf' \in Pictures
      BY <1>3, BlankType DEF InitializeWindowBuffer
    <2>2. /\ pc' \in {"created", "msgbox"} /\ window # "shown" /\ ctxLive
          /\ UNCHANGED <<caller, ticks, ctxLive, hWnd, redraw, ink, desktop, queue>>
      BY <1>3 DEF InitializeWindowBuffer
    <2>3. TypeOK'
      BY <2>1, <2>2
    <2>4. Building' /\ ~dirty' /\ ~closePosted' /\ input' = <<>> /\ window' # "shown"
      BY <2>1, <2>2
    <2>5. /\ pc' \notin {"update", "ready", "user", "redraw", "sleep", "pump"}
          /\ quit' = quit /\ ~quit
      BY <1>3, <2>2 DEF InitializeWindowBuffer
    <2>. QED  BY <2>3, <2>4, <2>5
  <1>4. CASE ShowWindow
    BY <1>4, BlankType DEF ShowWindow
  <1>5. CASE UpdateWindow
    BY <1>5 DEF UpdateWindow, Paint
  <1>6. CASE PeryanMain
    BY <1>6 DEF PeryanMain
  <1>. QED  BY <1>1, <1>2, <1>3, <1>4, <1>5, <1>6

LEMMA ProgramStep ==
  ASSUME Inv, Program \/ Redraw1End \/ Sleep
  PROVE  Inv'
PROOF
  <1> USE DEF Inv, TypeOK, PCs, Building, QuitIsFinal, ScreenShowsBuffer,
              control, context, bitmaps, desktop, queue, Abort
  <1>1. CASE SetColor
    BY <1>1 DEF SetColor
  <1>2. CASE PGet
    <2>1. GetCurrentDC \in Pictures
      BY <1>2, CurrentType DEF PGet
    <2>2. ink' \in Colors
      BY <1>2, <2>1 DEF PGet, Pictures
    <2>. QED  BY <1>2, <2>2 DEF PGet
  <1>3. CASE DrawPoints
    <2>1. buffer \in Pictures /\ redrawBuf \in Pictures /\ ink \in Colors
      BY <1>3 DEF DrawPoints
    <2>2. PICK S \in SUBSET Pixels :
            IF redraw = 1
              THEN buffer' = Painted(buffer, S, ink) /\ UNCHANGED redrawBuf
              ELSE redrawBuf' = Painted(redrawBuf, S, ink) /\ UNCHANGED buffer
      BY <1>3 DEF DrawPoints
    <2>3. buffer' \in Pictures /\ redrawBuf' \in Pictures
      BY <2>1, <2>2, PaintedType
    <2>4. CASE redraw = 1
      BY <1>3, <2>3, <2>4 DEF DrawPoints, RefreshMainDC, Pump
    <2>5. CASE redraw = 0
      BY <1>3, <2>2, <2>3, <2>5 DEF DrawPoints, RefreshMainDC
    <2>. QED  BY <2>4, <2>5
  <1>4. CASE Redraw1
    <2>1. GetCurrentDC \in Pictures
      BY <1>4, CurrentType DEF Redraw1
    <2>. QED  BY <1>4, <2>1 DEF Redraw1, RedrawOn, RefreshMainDC, Pump
  <1>5. CASE Redraw0
    <2>1. GetCurrentDC \in Pictures
      BY <1>5, CurrentType DEF Redraw0
    <2>. QED  BY <1>5, <2>1 DEF Redraw0, SavedBuffer
  <1>6. CASE Wait
    BY <1>6, WinRuntimeAssumption DEF Wait
  <1>7. CASE RuntimeError
    BY <1>7 DEF RuntimeError
  <1>8. CASE End
    BY <1>8 DEF End, Pump
  <1>9. CASE Stop
    BY <1>9 DEF Stop
  <1>10. CASE Redraw1End
    BY <1>10 DEF Redraw1End
  <1>11. CASE Sleep
    BY <1>11 DEF Sleep, AfterSleep
  <1>. QED  BY <1>1, <1>2, <1>3, <1>4, <1>5, <1>6, <1>7, <1>8, <1>9, <1>10,
               <1>11 DEF Program

LEMMA DispatchStep ==
  ASSUME Inv,
         \/ DispatchPosted \/ DispatchQuit \/ DispatchClick \/ DispatchMouse
         \/ DispatchPaint \/ PumpEnd
  PROVE  Inv'
PROOF
  <1> USE DEF Inv, TypeOK, PCs, Building, QuitIsFinal, ScreenShowsBuffer,
              control, context, bitmaps, desktop, queue, Dispatching
  <1>1. CASE DispatchPosted
    BY <1>1, EmptyInput DEF DispatchPosted, CloseWindow, QuitOnDestroy
  <1>2. CASE DispatchQuit
    BY <1>2 DEF DispatchQuit
  <1>3. CASE DispatchClick
    BY <1>3, EmptyInput DEF DispatchClick, CloseWindow, QuitOnDestroy
  <1>4. CASE DispatchMouse
    BY <1>4 DEF DispatchMouse
  <1>5. CASE DispatchPaint
    BY <1>5 DEF DispatchPaint, Paint
  <1>6. CASE PumpEnd
    <2>1. CASE caller = "wait"
      BY <1>6, <2>1 DEF PumpEnd, PumpReturns, MoreRounds
    <2>2. CASE caller # "wait"
      BY <1>6, <2>2 DEF PumpEnd, PumpReturns
    <2>. QED  BY <2>1, <2>2
  <1>. QED  BY <1>1, <1>2, <1>3, <1>4, <1>5, <1>6

LEMMA EnvironmentStep ==
  ASSUME Inv, Environment
  PROVE  Inv'
PROOF
  <1> USE DEF Inv, TypeOK, PCs, Building, QuitIsFinal, ScreenShowsBuffer,
              control, context, bitmaps, desktop, queue, Alive
  <1>1. CASE PostClose
    BY <1>1 DEF PostClose
  <1>2. CASE Input
    BY <1>2 DEF Input
  <1>3. CASE Expose
    BY <1>3, BlankType DEF Expose
  <1>4. CASE MessageBoxEnd
    BY <1>4 DEF MessageBoxEnd
  <1>. QED  BY <1>1, <1>2, <1>3, <1>4 DEF Environment

LEMMA NextInv == Inv /\ [Next]_vars => Inv'
PROOF
  <1> SUFFICES ASSUME Inv, [Next]_vars PROVE Inv'
    OBVIOUS
  <1>1. CASE UNCHANGED vars
    BY <1>1 DEF vars, control, context, bitmaps, desktop, queue, Inv, TypeOK,
                PCs, Building, QuitIsFinal, ScreenShowsBuffer
  <1>2. CASE Next
    BY <1>1, <1>2, StartingStep, ProgramStep, DispatchStep, EnvironmentStep
       DEF Next, Runtime, Ended
  <1>. QED  BY <1>1, <1>2

\* The invariant holds throughout every execution of every program.
THEOREM RuntimeInvariant == Spec => []Inv
PROOF BY InitInv, NextInv, PTL DEF Spec

\* No function of the runtime, and no WM_PAINT, ever dereferences the context
\* after the window procedure has freed it.
THEOREM NoUseAfterFree == Spec => []ContextIsLive
PROOF
  <1>1. Inv => ContextIsLive
    BY DEF Inv, Building, ContextIsLive, Dispatching, QuitIsFinal
  <1>. QED  BY <1>1, RuntimeInvariant, PTL

\* Once end has been called or the window destroyed, the program never goes on.
THEOREM ProgramStopsAtQuit == Spec => []QuitIsFinal
PROOF
  <1>1. Inv => QuitIsFinal
    BY DEF Inv
  <1>. QED  BY <1>1, RuntimeInvariant, PTL

\* A drawing call returns only with its frame on the screen.
THEOREM FramesAreShown == Spec => [](ScreenShowsBuffer /\ ShownBeforeReturning)
PROOF
  <1>1. Inv => ScreenShowsBuffer /\ ShownBeforeReturning
    BY DEF Inv, ShownBeforeReturning
  <1>. QED  BY <1>1, RuntimeInvariant, PTL

-----------------------------------------------------------------------------
(* The two bitmaps implement the canvas. *)

LEMMA CanvasInitially == Init => Canvas!CanvasInit
PROOF BY DEF Init, Canvas!CanvasInit, GetCurrentDC

\* What the canvas sees is left alone.
Idle == UNCHANGED <<redraw, buffer, redrawBuf, screen, ink>>

LEMMA IdleStep == Idle => UNCHANGED Canvas!canvasVars
PROOF BY DEF Idle, Canvas!canvasVars, GetCurrentDC

\* The statements that draw, switch the mode or change the colour.
LEMMA CanvasProgramStep ==
  ASSUME Inv, SetColor \/ PGet \/ DrawPoints \/ Redraw1 \/ Redraw0
  PROVE  Canvas!CanvasNext
PROOF
  <1>1. /\ buffer \in Pictures /\ redrawBuf \in Pictures /\ redraw \in {0, 1}
        /\ NoPicture \notin Pictures /\ GetCurrentDC \in Pictures
    BY WinRuntimeAssumption, CurrentType
       DEF Inv, TypeOK, SetColor, PGet, DrawPoints, Redraw1, Redraw0, Pictures
  <1>2. GetCurrentDC # NoPicture
    BY <1>1
  <1>3. CASE SetColor
    <2>1. ink' \in Colors /\ Canvas!SetInk(ink')
      BY <1>3 DEF SetColor, Canvas!SetInk, GetCurrentDC, desktop
    <2>. QED  BY <2>1 DEF Canvas!CanvasNext
  <1>4. CASE PGet
    <2>1. PICK p \in Pixels : ink' = GetCurrentDC[p]
      BY <1>4 DEF PGet
    <2>2. UNCHANGED <<redraw, GetCurrentDC, buffer, screen>>
      BY <1>4 DEF PGet, GetCurrentDC, desktop
    <2>3. Canvas!PickInk(p)
      BY <1>2, <2>1, <2>2 DEF Canvas!PickInk
    <2>. QED  BY <2>3 DEF Canvas!CanvasNext
  <1>5. CASE DrawPoints
    <2>1. PICK S \in SUBSET Pixels :
            IF redraw = 1
              THEN buffer' = Painted(buffer, S, ink) /\ UNCHANGED redrawBuf
              ELSE redrawBuf' = Painted(redrawBuf, S, ink) /\ UNCHANGED buffer
      BY <1>5 DEF DrawPoints
    <2>2. UNCHANGED <<redraw, screen, ink>>
      BY <1>5 DEF DrawPoints
    <2>3. GetCurrentDC' = Canvas!Painted(GetCurrentDC, S, ink)
      BY <2>1, <2>2 DEF GetCurrentDC, Painted, Canvas!Painted
    <2>4. buffer' = IF redraw = 1 THEN GetCurrentDC' ELSE buffer
      BY <2>1, <2>2 DEF GetCurrentDC
    <2>5. Canvas!Draw(S)
      BY <1>2, <2>2, <2>3, <2>4 DEF Canvas!Draw
    <2>. QED  BY <2>5 DEF Canvas!CanvasNext
  <1>6. CASE Redraw1
    <2>1. /\ redraw' = 1 /\ buffer' = GetCurrentDC
          /\ UNCHANGED <<screen, ink>>
      BY <1>6 DEF Redraw1, RedrawOn
    <2>2. GetCurrentDC' = GetCurrentDC
      BY <2>1 DEF GetCurrentDC
    <2>3. Canvas!SetMode(1)
      BY <1>2, <2>1, <2>2 DEF Canvas!SetMode
    <2>. QED  BY <2>3 DEF Canvas!CanvasNext
  <1>7. CASE Redraw0
    <2>1. /\ redraw' = 0 /\ redrawBuf' = GetCurrentDC
          /\ UNCHANGED <<buffer, screen, ink>>
      BY <1>7 DEF Redraw0, SavedBuffer, desktop
    <2>2. GetCurrentDC' = GetCurrentDC
      BY <2>1 DEF GetCurrentDC
    <2>3. Canvas!SetMode(0)
      BY <1>2, <2>1, <2>2 DEF Canvas!SetMode
    <2>. QED  BY <2>3 DEF Canvas!CanvasNext
  <1>. QED  BY <1>3, <1>4, <1>5, <1>6, <1>7

\* The steps in which the bitmaps or the screen are filled or copied.
LEMMA CanvasScreenStep ==
  ASSUME Inv,
         \/ (InitializeWindowBuffer /\ ~Idle) \/ ShowWindow \/ Expose
         \/ UpdateWindow \/ DispatchPaint
  PROVE  Canvas!CanvasNext
PROOF
  <1>1. CASE InitializeWindowBuffer /\ ~Idle
    <2>1. /\ buffer' = Blank /\ redrawBuf' = Blank
          /\ UNCHANGED <<redraw, ink, screen>>
      BY <1>1 DEF InitializeWindowBuffer, Idle, desktop
    <2>2. GetCurrentDC = NoPicture
      BY <1>1 DEF InitializeWindowBuffer, Inv, Building, GetCurrentDC
    <2>3. GetCurrentDC' = Blank
      BY <2>1 DEF GetCurrentDC
    <2>4. Canvas!Open
      BY <2>1, <2>2, <2>3 DEF Canvas!Open, Canvas!Blank, Blank
    <2>. QED  BY <2>4 DEF Canvas!CanvasNext
  <1>2. CASE ShowWindow \/ Expose
    <2>1. screen' = Blank /\ UNCHANGED <<redraw, buffer, redrawBuf, ink>>
      BY <1>2 DEF ShowWindow, Expose, bitmaps
    <2>2. Canvas!Lose
      BY <2>1 DEF Canvas!Lose, Canvas!Blank, Blank, GetCurrentDC
    <2>. QED  BY <2>2 DEF Canvas!CanvasNext
  <1>3. CASE UpdateWindow \/ DispatchPaint
    <2>1. screen' = buffer /\ UNCHANGED <<redraw, buffer, redrawBuf, ink>>
      BY <1>3 DEF UpdateWindow, DispatchPaint, Paint, bitmaps
    <2>2. Canvas!Show
      BY <2>1 DEF Canvas!Show, GetCurrentDC
    <2>. QED  BY <2>2 DEF Canvas!CanvasNext
  <1>. QED  BY <1>1, <1>2, <1>3

\* All other steps.
LEMMA CanvasIdleStep ==
  ASSUME Inv,
         \/ InitializeWinPeryanContext \/ InitializeWindow \/ PeryanMain
         \/ Redraw1End \/ Sleep \/ Wait \/ RuntimeError \/ End \/ Stop
         \/ DispatchPosted \/ DispatchQuit \/ DispatchClick \/ DispatchMouse
         \/ PumpEnd \/ PostClose \/ Input \/ MessageBoxEnd \/ UNCHANGED vars
  PROVE  Idle
PROOF
  <1> USE DEF Idle, bitmaps, desktop
  <1>1. CASE InitializeWinPeryanContext \/ InitializeWindow \/ PeryanMain
    BY <1>1 DEF InitializeWinPeryanContext, InitializeWindow, PeryanMain
  <1>2. CASE Redraw1End
    BY <1>2 DEF Redraw1End, Inv
  <1>3. CASE Sleep \/ Wait \/ RuntimeError \/ End \/ Stop
    BY <1>3 DEF Sleep, Wait, RuntimeError, End, Stop
  <1>4. CASE DispatchPosted \/ DispatchQuit \/ DispatchClick \/ DispatchMouse
    BY <1>4 DEF DispatchPosted, DispatchQuit, DispatchClick, DispatchMouse,
                CloseWindow
  <1>5. CASE PumpEnd \/ PostClose \/ Input \/ MessageBoxEnd \/ UNCHANGED vars
    BY <1>5 DEF PumpEnd, PostClose, Input, MessageBoxEnd, vars
  <1>. QED  BY <1>1, <1>2, <1>3, <1>4, <1>5

LEMMA CanvasStep == Inv /\ [Next]_vars => [Canvas!CanvasNext]_(Canvas!canvasVars)
PROOF
  <1> SUFFICES ASSUME Inv, [Next]_vars
               PROVE  Canvas!CanvasNext \/ Idle
    BY IdleStep
  <1>1. CASE Program
    BY <1>1, CanvasProgramStep, CanvasIdleStep DEF Program
  <1>2. CASE Runtime
    BY <1>2, CanvasScreenStep, CanvasIdleStep DEF Runtime
  <1>3. CASE Environment
    BY <1>3, CanvasScreenStep, CanvasIdleStep DEF Environment
  <1>4. CASE Ended \/ UNCHANGED vars
    BY <1>4, CanvasIdleStep DEF Ended
  <1>. QED  BY <1>1, <1>2, <1>3, <1>4 DEF Next

\* Drawing through the two bitmaps, with messages dispatched in between, looks
\* to the program and on the screen like the single canvas of the manual.
THEOREM RuntimeImplementsCanvas == Spec => ImplementsCanvas
PROOF
  <1>1. Init => Canvas!CanvasInit
    BY CanvasInitially
  <1>2. Inv /\ [Next]_vars => [Canvas!CanvasNext]_(Canvas!canvasVars)
    BY CanvasStep
  <1>. QED  BY <1>1, <1>2, RuntimeInvariant, PTL
            DEF Spec, ImplementsCanvas, Canvas!CanvasSpec
==============================================================================
