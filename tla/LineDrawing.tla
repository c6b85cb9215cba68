---------------------------- MODULE LineDrawing ----------------------------
(***************************************************************************)
(* draw_line() of Project_1/library.c, Bresenham's algorithm: a call, and  *)
(* then a step for each turn of the loop, which goes along x or along y,   *)
(* whichever way is longer.  Integers are not bounded here; those of the   *)
(* program hold four times the largest coordinate of a screen.             *)
(***************************************************************************)
EXTENDS Integers

CONSTANTS Low, High  \* the coordinates programs call draw_line() with

ASSUME CoordAssumption == Low \in Int /\ High \in Int /\ Low <= High

Coord == Low..High

VARIABLES
  x1, y1, x2, y2,  \* the arguments
  curr_x, curr_y,  \* the last pixel drawn
  error,           \* two_dx_error, two_dy_error
  pc               \* "ready": no call; "along_x", "along_y": the loop

args == <<x1, y1, x2, y2>>
vars == <<args, curr_x, curr_y, error, pc>>

TypeOK ==
  /\ {x1, y1, x2, y2} \subseteq Coord
  /\ curr_x \in Coord /\ curr_y \in Coord /\ error \in Int
  /\ pc \in {"ready", "along_x", "along_y"}

Init ==
  /\ x1 \in Coord /\ y1 \in Coord
  /\ x2 = x1 /\ y2 = y1
  /\ curr_x = x1 /\ curr_y = y1
  /\ error = 0
  /\ pc = "ready"

-----------------------------------------------------------------------------
Distance(a, b) == IF b - a < 0 THEN a - b ELSE b - a
Towards(a, b) == IF b - a < 0 THEN -1 ELSE 1

delta_x == Distance(x1, x2)
delta_y == Distance(y1, y2)
x_inc == Towards(x1, x2)
y_inc == Towards(y1, y2)
two_dx == 2 * delta_x
two_dy == 2 * delta_y

\* draw_line(img, a, b, c, d): the first point is drawn.
Call(a, b, c, d) ==
  /\ pc = "ready"
  /\ x1' = a /\ y1' = b /\ x2' = c /\ y2' = d
  /\ curr_x' = a /\ curr_y' = b
  /\ error' = 0
  /\ pc' = IF a = c /\ b = d THEN "ready"
           ELSE IF Distance(b, d) <= Distance(a, c) THEN "along_x" ELSE "along_y"

\* Mutant: the error is compared with two_dx.
TurnsLate(e, delta) == e > 2 * delta

\* The line has drifted more than half a pixel from curr.
Turns(e, delta) == e > delta

\* Mutant: the error is not taken back.
RestKept(e, delta, two_delta) == e

\* The error after the turn, if there is one.
Rest(e, delta, two_delta) == IF Turns(e, delta) THEN e - two_delta ELSE e

AlongX ==
  /\ pc = "along_x" /\ curr_x # x2
  /\ LET e == error + two_dy IN
       /\ curr_x' = curr_x + x_inc
       /\ curr_y' = IF Turns(e, delta_x) THEN curr_y + y_inc ELSE curr_y
       /\ error' = Rest(e, delta_x, two_dx)
  /\ UNCHANGED <<args, pc>>

\* The same with the roles of x and y reversed.
AlongY ==
  /\ pc = "along_y" /\ curr_y # y2
  /\ LET e == error + two_dx IN
       /\ curr_y' = curr_y + y_inc
       /\ curr_x' = IF Turns(e, delta_y) THEN curr_x + x_inc ELSE curr_x
       /\ error' = Rest(e, delta_y, two_dy)
  /\ UNCHANGED <<args, pc>>

\* The loop ends, and draw_line() returns.
Return ==
  /\ \/ pc = "along_x" /\ curr_x = x2
     \/ pc = "along_y" /\ curr_y = y2
  /\ pc' = "ready"
  /\ UNCHANGED <<args, curr_x, curr_y, error>>

Step == AlongX \/ AlongY \/ Return

Next == Step \/ \E a, b, c, d \in Coord : Call(a, b, c, d)

Spec == Init /\ [][Next]_vars

-----------------------------------------------------------------------------
Between(a, b) == IF a <= b THEN a..b ELSE b..a

\* No pixel is beyond the ends, in either coordinate.
InRectangle == curr_x \in Between(x1, x2) /\ curr_y \in Between(y1, y2)

\* The pixels are those of the line: none is beyond its ends, and each is at most
\* half a pixel away from the straight line between them, measured across the
\* longer way.
StaysOnLine ==
  LET cross == (curr_x - x1) * (y2 - y1) - (curr_y - y1) * (x2 - x1)
      longer == IF delta_y <= delta_x THEN delta_x ELSE delta_y
  IN  InRectangle /\ 2 * cross \in -longer..longer

\* The line ends at its end, in both coordinates, although the loop looks at one
\* of them only.
EndsAtEnd == pc = "ready" => curr_x = x2 /\ curr_y = y2

=============================================================================
