-------------------------------- MODULE Canvas --------------------------------
(***************************************************************************)
(* What win32.c promises a Peryan program about drawing.                   *)
(*                                                                         *)
(* The program draws on one picture.  In mode 1 every drawing is published *)
(* at once; after `redraw 0' drawings are kept back until `redraw 1'       *)
(* publishes them together.  Switching the mode never changes the picture. *)
(* The window shows what is published, or is blank where the system has    *)
(* uncovered it and it has not been painted since.                         *)
(*                                                                         *)
(* There are no device contexts, no messages and no window procedure here: *)
(* WinRuntime implements this specification with two bitmaps.              *)
(***************************************************************************)
CONSTANTS
  Pixels,    \* the points of the window
  Colors,    \* what a point can be
  White,     \* the colour of the background
  Black,     \* the colour the program starts with
  NoPicture  \* what stands for a bitmap that has not been created

VARIABLES
  mode,      \* the argument of the last `redraw'
  picture,   \* what the program has drawn, and what pget reads
  published, \* what the window is meant to show
  screen,    \* what the window shows
  ink        \* ginfo_r, ginfo_g, ginfo_b

canvasVars == <<mode, picture, published, screen, ink>>

Pictures == [Pixels -> Colors]
Blank == [p \in Pixels |-> White]

\* The picture pic after filling the points S.
Painted(pic, S, c) == [p \in Pixels |-> IF p \in S THEN c ELSE pic[p]]

CanvasInit ==
  /\ mode = 1
  /\ picture = NoPicture /\ published = NoPicture /\ screen = NoPicture
  /\ ink = Black

Open ==
  /\ picture = NoPicture
  /\ picture' = Blank /\ published' = Blank
  /\ UNCHANGED <<mode, screen, ink>>

Draw(S) ==
  /\ picture # NoPicture
  /\ picture' = Painted(picture, S, ink)
  /\ published' = IF mode = 1 THEN picture' ELSE published
  /\ UNCHANGED <<mode, screen, ink>>

SetMode(m) ==
  /\ picture # NoPicture
  /\ mode' = m
  /\ published' = IF m = 1 THEN picture ELSE published
  /\ UNCHANGED <<picture, screen, ink>>

SetInk(c) == ink' = c /\ UNCHANGED <<mode, picture, published, screen>>

PickInk(p) ==
  /\ picture # NoPicture
  /\ ink' = picture[p]
  /\ UNCHANGED <<mode, picture, published, screen>>

Show == screen' = published /\ UNCHANGED <<mode, picture, published, ink>>

Lose == screen' = Blank /\ UNCHANGED <<mode, picture, published, ink>>

CanvasNext ==
  \/ Open \/ Show \/ Lose
  \/ \E S \in SUBSET Pixels : Draw(S)
  \/ \E m \in {0, 1} : SetMode(m)
  \/ \E c \in Colors : SetInk(c)
  \/ \E p \in Pixels : PickInk(p)

CanvasSpec == CanvasInit /\ [][CanvasNext]_canvasVars
==============================================================================
