--------------------------- MODULE GraphicsProofs ---------------------------
(***************************************************************************)
(* The programs that use the graphics library: draw_line() for every pair  *)
(* of ends, and the game for every size of the screen.                     *)
(*                                                                         *)
(* For draw_line() the inductive invariant is what the error means: twice  *)
(* the distance between the line and the pixel, times the length of the    *)
(* longer side.  For the game it is what blit() has done so far.           *)
(***************************************************************************)
EXTENDS Graphics, TLAPS

\* The loop has made i steps along the longer side and j along the shorter.
Tracks(long, short, i, j) ==
  /\ 0 < long /\ 0 <= short /\ short <= long
  /\ 0 <= i /\ i <= long
  /\ error = 2 * (short * i - long * j)
  /\ -long < error /\ error <= long

StepsX == (curr_x - x1) * x_inc
StepsY == (curr_y - y1) * y_inc

Types ==
  /\ x1 \in Coord /\ y1 \in Coord /\ x2 \in Coord /\ y2 \in Coord
  /\ curr_x \in Int /\ curr_y \in Int /\ error \in Int
  /\ pc \in {"ready", "along_x", "along_y"}

IInv ==
  /\ Types
  /\ EndsAtEnd
  /\ pc = "along_x" => Tracks(delta_x, delta_y, StepsX, StepsY)
  /\ pc = "along_y" => Tracks(delta_y, delta_x, StepsY, StepsX)

-----------------------------------------------------------------------------
(* Arithmetic.                                                             *)

\* Distance and Towards are the length and the sign of a difference.
LEMMA Signs ==
  ASSUME NEW a \in Int, NEW b \in Int
  PROVE  /\ Distance(a, b) \in Nat
         /\ Towards(a, b) \in {-1, 1}
         /\ (b - a) * Towards(a, b) = Distance(a, b)
         /\ Distance(a, b) * Towards(a, b) = b - a
         /\ Distance(a, b) = 0 <=> a = b
BY DEF Distance, Towards

\* One turn of the loop keeps the error what it should be.
LEMMA OneTurn ==
  ASSUME NEW long \in Int, NEW short \in Int, NEW i \in Int, NEW j \in Int,
         NEW e \in Int,
         0 < long, 0 <= short, short <= long,
         e = 2 * (short * i - long * j), -long < e, e <= long,
         NEW n \in Int, n = e + 2 * short
  PROVE  IF n > long
           THEN /\ n - 2 * long = 2 * (short * (i + 1) - long * (j + 1))
                /\ -long < n - 2 * long /\ n - 2 * long <= long
           ELSE /\ n = 2 * (short * (i + 1) - long * j)
                /\ -long < n /\ n <= long
<1>1. short * (i + 1) = short * i + short
  OBVIOUS
<1>2. long * (j + 1) = long * j + long
  OBVIOUS
<1> QED
  BY <1>1, <1>2

\* A multiple of 2 * long that is within long of zero, is zero.
LEMMA NoRest ==
  ASSUME NEW long \in Int, 0 < long, NEW k \in Int,
         -long < 2 * (long * k), 2 * (long * k) <= long
  PROVE  k = 0
<1>1. CASE k >= 1
  <2>1. long * k >= long
    BY <1>1
  <2> QED
    BY <2>1
<1>2. CASE k <= -1
  <2>1. long * k <= -long
    BY <1>2
  <2> QED
    BY <2>1
<1> QED
  BY <1>1, <1>2

\* As many steps are made along the shorter side as the line needs, no more.
LEMMA ShortSide ==
  ASSUME NEW long \in Int, NEW short \in Int, NEW i \in Int, NEW j \in Int,
         NEW e \in Int,
         0 < long, 0 <= short, 0 <= i, i <= long,
         e = 2 * (short * i - long * j), -long < e, e <= long
  PROVE  0 <= j /\ j <= short /\ (i = long => j = short)
<1>1. 0 <= short * i /\ short * i <= short * long
  OBVIOUS
<1>2. ASSUME j <= -1 PROVE FALSE
  <2>1. long * j <= -long
    BY <1>2
  <2> QED
    BY <2>1, <1>1
<1>3. ASSUME j >= short + 1 PROVE FALSE
  <2>1. long * j >= long * (short + 1)
    BY <1>3
  <2>2. long * (short + 1) = short * long + long
    OBVIOUS
  <2> QED
    BY <2>1, <2>2, <1>1
<1>4. ASSUME i = long PROVE j = short
  <2>1. short * i - long * j = long * (short - j)
    BY <1>4
  <2> QED
    BY <2>1, NoRest
<1> QED
  BY <1>2, <1>3, <1>4

-----------------------------------------------------------------------------
(* The steps.                                                              *)

LEMMA InitInv == Init => IInv
BY CoordAssumption DEF Init, IInv, Types, EndsAtEnd, Coord

LEMMA SideTypes ==
  ASSUME Types
  PROVE  /\ delta_x \in Nat /\ delta_y \in Nat
         /\ x_inc \in {-1, 1} /\ y_inc \in {-1, 1}
         /\ two_dx = 2 * delta_x /\ two_dy = 2 * delta_y
         /\ StepsX \in Int /\ StepsY \in Int
         /\ x1 \in Int /\ y1 \in Int /\ x2 \in Int /\ y2 \in Int
<1>1. x1 \in Int /\ y1 \in Int /\ x2 \in Int /\ y2 \in Int
  BY CoordAssumption DEF Types, Coord
<1>2. delta_x \in Nat /\ delta_y \in Nat /\ x_inc \in {-1, 1} /\ y_inc \in {-1, 1}
  BY <1>1, Signs DEF delta_x, delta_y, x_inc, y_inc
<1> QED
  BY <1>1, <1>2 DEF two_dx, two_dy, StepsX, StepsY, Types

\* A call starts with no step made.
LEMMA CallInv ==
  ASSUME IInv, NEW a \in Coord, NEW b \in Coord, NEW c \in Coord, NEW d \in Coord,
         Call(a, b, c, d)
  PROVE  IInv'
<1>1. a \in Int /\ b \in Int /\ c \in Int /\ d \in Int
  BY CoordAssumption DEF Coord
<1>2. Types'
  BY <1>1 DEF Types, Call
<1>3. EndsAtEnd'
  BY <1>1, Signs DEF EndsAtEnd, Call
<1>4. delta_x' = Distance(a, c) /\ delta_y' = Distance(b, d)
  BY DEF Call, delta_x, delta_y, Distance
<1>5. StepsX' = 0 /\ StepsY' = 0
  <2>1. Towards(a, c) \in Int /\ Towards(b, d) \in Int
    BY <1>1 DEF Towards
  <2>2. x_inc' = Towards(a, c) /\ y_inc' = Towards(b, d)
    BY DEF Call, x_inc, y_inc, Towards
  <2>3. /\ StepsX' = (curr_x' - x1') * x_inc'
        /\ StepsY' = (curr_y' - y1') * y_inc'
    BY DEF StepsX, StepsY
  <2>4. StepsX' = (a - a) * Towards(a, c) /\ StepsY' = (b - b) * Towards(b, d)
    BY <2>2, <2>3 DEF Call
  <2> QED
    BY <1>1, <2>1, <2>4
<1>6. /\ Distance(a, c) \in Nat /\ Distance(b, d) \in Nat
      /\ Distance(a, c) = 0 <=> a = c
      /\ Distance(b, d) = 0 <=> b = d
  BY <1>1, Signs
<1>7. ASSUME pc' = "along_x" PROVE Tracks(delta_x, delta_y, StepsX, StepsY)'
  <2>1. 0 < Distance(a, c) /\ Distance(b, d) <= Distance(a, c)
    BY <1>6, <1>7 DEF Call
  <2>2. error' = 0
    BY DEF Call
  <2> QED
    BY <2>1, <2>2, <1>4, <1>5, <1>6 DEF Tracks
<1>8. ASSUME pc' = "along_y" PROVE Tracks(delta_y, delta_x, StepsY, StepsX)'
  <2>1. 0 < Distance(b, d) /\ Distance(a, c) <= Distance(b, d)
    BY <1>6, <1>8 DEF Call
  <2>2. error' = 0
    BY DEF Call
  <2> QED
    BY <2>1, <2>2, <1>4, <1>5, <1>6 DEF Tracks
<1> QED
  BY <1>2, <1>3, <1>7, <1>8 DEF IInv

\* A turn along x.
LEMMA AlongXInv ==
  ASSUME IInv, AlongX
  PROVE  IInv'
<1> DEFINE n == error + two_dy
<1>1. Types
  BY DEF IInv
<1>2. /\ delta_x \in Nat /\ delta_y \in Nat
      /\ x_inc \in {-1, 1} /\ y_inc \in {-1, 1}
      /\ two_dx = 2 * delta_x /\ two_dy = 2 * delta_y
      /\ StepsX \in Int /\ StepsY \in Int
      /\ x1 \in Int /\ y1 \in Int /\ x2 \in Int /\ y2 \in Int
  BY <1>1, SideTypes
<1>3. Tracks(delta_x, delta_y, StepsX, StepsY)
  BY DEF IInv, AlongX
<1>4. /\ delta_x' = delta_x /\ delta_y' = delta_y
      /\ x_inc' = x_inc /\ y_inc' = y_inc
  BY DEF AlongX, args, delta_x, delta_y, x_inc, y_inc, Distance, Towards
<1>5. Types'
  BY <1>1, <1>2 DEF Types, AlongX, args, Rest
<1>6. StepsX' = StepsX + 1
  <2>1. (curr_x + x_inc - x1) * x_inc = (curr_x - x1) * x_inc + 1
    BY <1>1, <1>2 DEF Types
  <2> QED
    <3>1. StepsX' = (curr_x' - x1') * x_inc'
      BY DEF StepsX
    <3>2. curr_x' = curr_x + x_inc /\ x1' = x1
      BY DEF AlongX, args
    <3>3. StepsX' = (curr_x + x_inc - x1) * x_inc
      BY <3>1, <3>2, <1>1, <1>2, <1>4 DEF Types
    <3>4. StepsX = (curr_x - x1) * x_inc
      BY DEF StepsX
    <3> QED
      BY <2>1, <3>3, <3>4
<1>7. StepsX + 1 <= delta_x
  <2>1. StepsX # delta_x
    <3>1. (x2 - x1) * x_inc = delta_x
      BY <1>2, Signs DEF delta_x, x_inc
    <3>2. (curr_x - x1) * x_inc # (x2 - x1) * x_inc
      BY <1>1, <1>2 DEF AlongX, Types
    <3> QED
      BY <3>1, <3>2 DEF StepsX
  <2> QED
    BY <1>2, <1>3, <2>1 DEF Tracks
<1>8. StepsY' = IF n > delta_x THEN StepsY + 1 ELSE StepsY
  <2>1. (curr_y + y_inc - y1) * y_inc = (curr_y - y1) * y_inc + 1
    BY <1>1, <1>2 DEF Types
  <2>2. curr_y' = IF n > delta_x THEN curr_y + y_inc ELSE curr_y
    BY DEF AlongX, Turns
  <2> QED
    <3>1. StepsY' = (curr_y' - y1') * y_inc'
      BY DEF StepsY
    <3>2. StepsY' = (curr_y' - y1) * y_inc
      BY <3>1, <1>4 DEF AlongX, args
    <3>3. StepsY = (curr_y - y1) * y_inc
      BY DEF StepsY
    <3> HIDE DEF n
    <3>4. CASE n > delta_x
      BY <3>2, <3>3, <3>4, <2>1, <2>2, <1>1, <1>2 DEF Types
    <3>5. CASE ~(n > delta_x)
      BY <3>2, <3>3, <3>5, <2>2
    <3> QED
      BY <3>4, <3>5
<1>9. error' = IF n > delta_x THEN n - 2 * delta_x ELSE n
  BY <1>2 DEF AlongX, Rest, Turns
<1>10. IF n > delta_x
         THEN /\ n - 2 * delta_x = 2 * (delta_y * (StepsX + 1) - delta_x * (StepsY + 1))
              /\ -delta_x < n - 2 * delta_x /\ n - 2 * delta_x <= delta_x
         ELSE /\ n = 2 * (delta_y * (StepsX + 1) - delta_x * StepsY)
              /\ -delta_x < n /\ n <= delta_x
  <2>1. error \in Int /\ n \in Int /\ n = error + 2 * delta_y
    BY <1>1, <1>2 DEF Types
  <2> HIDE DEF n
  <2> QED
    BY <2>1, <1>2, <1>3, OneTurn DEF Tracks
<1>11. Tracks(delta_x, delta_y, StepsX, StepsY)'
  <2> HIDE DEF n
  <2> QED
    BY <1>2, <1>3, <1>4, <1>6, <1>7, <1>8, <1>9, <1>10 DEF Tracks
<1> QED
  BY <1>5, <1>11 DEF IInv, EndsAtEnd, AlongX

\* A turn along y: the same with the roles of x and y reversed.
LEMMA AlongYInv ==
  ASSUME IInv, AlongY
  PROVE  IInv'
<1> DEFINE n == error + two_dx
<1>1. Types
  BY DEF IInv
<1>2. /\ delta_x \in Nat /\ delta_y \in Nat
      /\ x_inc \in {-1, 1} /\ y_inc \in {-1, 1}
      /\ two_dx = 2 * delta_x /\ two_dy = 2 * delta_y
      /\ StepsX \in Int /\ StepsY \in Int
      /\ x1 \in Int /\ y1 \in Int /\ x2 \in Int /\ y2 \in Int
  BY <1>1, SideTypes
<1>3. Tracks(delta_y, delta_x, StepsY, StepsX)
  BY DEF IInv, AlongY
<1>4. /\ delta_x' = delta_x /\ delta_y' = delta_y
      /\ x_inc' = x_inc /\ y_inc' = y_inc
  BY DEF AlongY, args, delta_x, delta_y, x_inc, y_inc, Distance, Towards
<1>5. Types'
  BY <1>1, <1>2 DEF Types, AlongY, args, Rest
<1>6. StepsY' = StepsY + 1
  <2>1. (curr_y + y_inc - y1) * y_inc = (curr_y - y1) * y_inc + 1
    BY <1>1, <1>2 DEF Types
  <2> QED
    <3>1. StepsY' = (curr_y' - y1') * y_inc'
      BY DEF StepsY
    <3>2. curr_y' = curr_y + y_inc /\ y1' = y1
      BY DEF AlongY, args
    <3>3. StepsY' = (curr_y + y_inc - y1) * y_inc
      BY <3>1, <3>2, <1>1, <1>2, <1>4 DEF Types
    <3>4. StepsY = (curr_y - y1) * y_inc
      BY DEF StepsY
    <3> QED
      BY <2>1, <3>3, <3>4
<1>7. StepsY + 1 <= delta_y
  <2>1. StepsY # delta_y
    <3>1. (y2 - y1) * y_inc = delta_y
      BY <1>2, Signs DEF delta_y, y_inc
    <3>2. (curr_y - y1) * y_inc # (y2 - y1) * y_inc
      BY <1>1, <1>2 DEF AlongY, Types
    <3> QED
      BY <3>1, <3>2 DEF StepsY
  <2> QED
    BY <1>2, <1>3, <2>1 DEF Tracks
<1>8. StepsX' = IF n > delta_y THEN StepsX + 1 ELSE StepsX
  <2>1. (curr_x + x_inc - x1) * x_inc = (curr_x - x1) * x_inc + 1
    BY <1>1, <1>2 DEF Types
  <2>2. curr_x' = IF n > delta_y THEN curr_x + x_inc ELSE curr_x
    BY DEF AlongY, Turns
  <2> QED
    <3>1. StepsX' = (curr_x' - x1') * x_inc'
      BY DEF StepsX
    <3>2. StepsX' = (curr_x' - x1) * x_inc
      BY <3>1, <1>4 DEF AlongY, args
    <3>3. StepsX = (curr_x - x1) * x_inc
      BY DEF StepsX
    <3> HIDE DEF n
    <3>4. CASE n > delta_y
      BY <3>2, <3>3, <3>4, <2>1, <2>2, <1>1, <1>2 DEF Types
    <3>5. CASE ~(n > delta_y)
      BY <3>2, <3>3, <3>5, <2>2
    <3> QED
      BY <3>4, <3>5
<1>9. error' = IF n > delta_y THEN n - 2 * delta_y ELSE n
  BY <1>2 DEF AlongY, Rest, Turns
<1>10. IF n > delta_y
         THEN /\ n - 2 * delta_y = 2 * (delta_x * (StepsY + 1) - delta_y * (StepsX + 1))
              /\ -delta_y < n - 2 * delta_y /\ n - 2 * delta_y <= delta_y
         ELSE /\ n = 2 * (delta_x * (StepsY + 1) - delta_y * StepsX)
              /\ -delta_y < n /\ n <= delta_y
  <2>1. error \in Int /\ n \in Int /\ n = error + 2 * delta_x
    BY <1>1, <1>2 DEF Types
  <2> HIDE DEF n
  <2> QED
    BY <2>1, <1>2, <1>3, OneTurn DEF Tracks
<1>11. Tracks(delta_y, delta_x, StepsY, StepsX)'
  <2> HIDE DEF n
  <2> QED
    BY <1>2, <1>3, <1>4, <1>6, <1>7, <1>8, <1>9, <1>10 DEF Tracks
<1> QED
  BY <1>5, <1>11 DEF IInv, EndsAtEnd, AlongY

\* Where all steps along the longer side are made, those along the shorter are.
LEMMA ReturnInv ==
  ASSUME IInv, Return
  PROVE  IInv'
<1>1. Types
  BY DEF IInv
<1>2. /\ delta_x \in Nat /\ delta_y \in Nat
      /\ x_inc \in {-1, 1} /\ y_inc \in {-1, 1}
      /\ StepsX \in Int /\ StepsY \in Int
      /\ x1 \in Int /\ y1 \in Int /\ x2 \in Int /\ y2 \in Int
  BY <1>1, SideTypes
<1>3. (x2 - x1) * x_inc = delta_x /\ (y2 - y1) * y_inc = delta_y
  BY <1>2, Signs DEF delta_x, delta_y, x_inc, y_inc
<1>4. curr_x = x2 <=> StepsX = delta_x
  BY <1>1, <1>2, <1>3 DEF StepsX, Types
<1>5. curr_y = y2 <=> StepsY = delta_y
  BY <1>1, <1>2, <1>3 DEF StepsY, Types
<1>6. curr_x = x2 /\ curr_y = y2
  <2>1. CASE pc = "along_x" /\ curr_x = x2
    <3>1. Tracks(delta_x, delta_y, StepsX, StepsY)
      BY <2>1 DEF IInv
    <3>2. StepsY = delta_y
      BY <2>1, <3>1, <1>1, <1>2, <1>4, ShortSide DEF Tracks, Types
    <3> QED
      BY <2>1, <3>2, <1>5
  <2>2. CASE pc = "along_y" /\ curr_y = y2
    <3>1. Tracks(delta_y, delta_x, StepsY, StepsX)
      BY <2>2 DEF IInv
    <3>2. StepsX = delta_x
      BY <2>2, <3>1, <1>1, <1>2, <1>5, ShortSide DEF Tracks, Types
    <3> QED
      BY <2>2, <3>2, <1>4
  <2> QED
    BY <2>1, <2>2 DEF Return
<1> QED
  BY <1>1, <1>6 DEF IInv, Types, EndsAtEnd, Return, args

LEMMA Inductive == IInv /\ [Next]_vars => IInv'
<1> SUFFICES ASSUME IInv, [Next]_vars PROVE IInv'
  OBVIOUS
<1>1. CASE AlongX
  BY <1>1, AlongXInv
<1>2. CASE AlongY
  BY <1>2, AlongYInv
<1>3. CASE Return
  BY <1>3, ReturnInv
<1>4. CASE \E a, b, c, d \in Coord : Call(a, b, c, d)
  BY <1>4, CallInv
<1>5. CASE UNCHANGED vars
  BY <1>5 DEF vars, args, IInv, Types, EndsAtEnd, Tracks, StepsX, StepsY,
     delta_x, delta_y, x_inc, y_inc, Distance, Towards
<1> QED
  BY <1>1, <1>2, <1>3, <1>4, <1>5 DEF Next, Step

LEMMA InvHolds == Spec => []IInv
BY InitInv, Inductive, PTL DEF Spec

-----------------------------------------------------------------------------
(* What follows.                                                           *)

\* draw_line() ends at its end: the loop looks at one coordinate, and the other
\* has arrived too.
THEOREM ArrivesAtEnd == Spec => []EndsAtEnd
<1>1. IInv => EndsAtEnd
  BY DEF IInv
<1> QED
  BY <1>1, InvHolds, PTL

\* As many steps as the sides are long at most, in the direction of the end.
LEMMA BetweenEnds ==
  ASSUME NEW a \in Int, NEW b \in Int, NEW c \in Int, NEW inc \in {-1, 1},
         0 <= (c - a) * inc, (c - a) * inc <= (b - a) * inc
  PROVE  c \in Between(a, b)
<1>1. CASE inc = 1
  BY <1>1 DEF Between
<1>2. CASE inc = -1
  BY <1>2 DEF Between
<1> QED
  BY <1>1, <1>2

LEMMA IsInRectangle == IInv => InRectangle
<1> SUFFICES ASSUME IInv PROVE InRectangle
  OBVIOUS
<1>1. Types
  BY DEF IInv
<1>2. /\ delta_x \in Nat /\ delta_y \in Nat
      /\ x_inc \in {-1, 1} /\ y_inc \in {-1, 1}
      /\ StepsX \in Int /\ StepsY \in Int
      /\ x1 \in Int /\ y1 \in Int /\ x2 \in Int /\ y2 \in Int
  BY <1>1, SideTypes
<1>3. CASE pc = "ready"
  BY <1>2, <1>3 DEF IInv, EndsAtEnd, InRectangle, Between
<1>4. CASE pc # "ready"
  <2>1. 0 <= StepsX /\ StepsX <= delta_x /\ 0 <= StepsY /\ StepsY <= delta_y
    <3>1. CASE pc = "along_x"
      <4>1. Tracks(delta_x, delta_y, StepsX, StepsY)
        BY <3>1 DEF IInv
      <4> QED
        BY <4>1, <1>1, <1>2, ShortSide DEF Tracks, Types
    <3>2. CASE pc = "along_y"
      <4>1. Tracks(delta_y, delta_x, StepsY, StepsX)
        BY <3>2 DEF IInv
      <4> QED
        BY <4>1, <1>1, <1>2, ShortSide DEF Tracks, Types
    <3> QED
      BY <1>1, <1>4, <3>1, <3>2 DEF Types
  <2>2. (x2 - x1) * x_inc = delta_x /\ (y2 - y1) * y_inc = delta_y
    BY <1>2, Signs DEF delta_x, delta_y, x_inc, y_inc
  <2>3. curr_x \in Between(x1, x2)
    BY <1>1, <1>2, <2>1, <2>2, BetweenEnds DEF StepsX, Types
  <2>4. curr_y \in Between(y1, y2)
    BY <1>1, <1>2, <2>1, <2>2, BetweenEnds DEF StepsY, Types
  <2> QED
    BY <2>3, <2>4 DEF InRectangle
<1> QED
  BY <1>3, <1>4

LEMMA LineTypes == IInv => TypeOK
<1> SUFFICES ASSUME IInv PROVE TypeOK
  OBVIOUS
<1>1. Types /\ InRectangle
  BY IsInRectangle DEF IInv
<1>2. /\ curr_x \in Int /\ x1 \in Low..High /\ x2 \in Low..High
      /\ curr_y \in Int /\ y1 \in Low..High /\ y2 \in Low..High
  BY <1>1 DEF Types, Coord
<1>3. curr_x \in Coord /\ curr_y \in Coord
  BY <1>1, <1>2, CoordAssumption DEF InRectangle, Between, Coord
<1> QED
  BY <1>1, <1>3 DEF Types, TypeOK

\* Each pixel that draw_line() passes to draw_pixel() lies between the ends of its line
\* in both coordinates, so that a line between two points of the screen stays on the
\* screen.
THEOREM StaysInRectangle == Spec => []InRectangle
BY IsInRectangle, InvHolds, PTL

\* The error is small, and it is the distance.
LEMMA OnLine == IInv => StaysOnLine
<1> DEFINE cross == (curr_x - x1) * (y2 - y1) - (curr_y - y1) * (x2 - x1)
           longer == IF delta_y <= delta_x THEN delta_x ELSE delta_y
<1>1. ASSUME IInv PROVE 2 * cross \in -longer..longer
  <2>1. Types
    BY <1>1 DEF IInv
  <2>2. /\ delta_x \in Nat /\ delta_y \in Nat
        /\ x_inc \in {-1, 1} /\ y_inc \in {-1, 1}
        /\ StepsX \in Int /\ StepsY \in Int
        /\ x1 \in Int /\ y1 \in Int /\ x2 \in Int /\ y2 \in Int
    BY <2>1, SideTypes
  <2>3. curr_x \in Int /\ curr_y \in Int /\ error \in Int
    BY <2>1 DEF Types
  <2>4. CASE pc = "ready"
    <3>1. cross = 0
      BY <1>1, <2>2, <2>4 DEF IInv, EndsAtEnd
    <3> HIDE DEF cross
    <3> QED
      BY <2>2, <3>1
  <2>5. cross * x_inc * y_inc = StepsX * delta_y - StepsY * delta_x
    <3>1. (x2 - x1) * x_inc = delta_x /\ (y2 - y1) * y_inc = delta_y
      BY <2>2, Signs DEF delta_x, delta_y, x_inc, y_inc
    <3>2. CASE x_inc = 1 /\ y_inc = 1
      BY <2>2, <2>3, <3>1, <3>2 DEF StepsX, StepsY
    <3>3. CASE x_inc = 1 /\ y_inc = -1
      BY <2>2, <2>3, <3>1, <3>3 DEF StepsX, StepsY
    <3>4. CASE x_inc = -1 /\ y_inc = 1
      BY <2>2, <2>3, <3>1, <3>4 DEF StepsX, StepsY
    <3>5. CASE x_inc = -1 /\ y_inc = -1
      BY <2>2, <2>3, <3>1, <3>5 DEF StepsX, StepsY
    <3> QED
      BY <2>2, <3>2, <3>3, <3>4, <3>5
  <2>6. cross \in Int
    BY <2>2, <2>3
  <2> HIDE DEF cross
  <2>7. cross = StepsX * delta_y - StepsY * delta_x \/ cross = StepsY * delta_x - StepsX * delta_y
    BY <2>2, <2>5, <2>6
  <2>8. CASE pc = "along_x"
    <3>1. Tracks(delta_x, delta_y, StepsX, StepsY)
      BY <1>1, <2>8 DEF IInv
    <3>2. longer = delta_x
      BY <3>1 DEF Tracks
    <3> QED
      BY <2>2, <2>3, <2>6, <2>7, <3>1, <3>2 DEF Tracks
  <2>9. CASE pc = "along_y"
    <3>1. Tracks(delta_y, delta_x, StepsY, StepsX)
      BY <1>1, <2>9 DEF IInv
    <3>2. longer = delta_y
      BY <2>2, <3>1 DEF Tracks
    <3> QED
      BY <2>2, <2>3, <2>6, <2>7, <3>1, <3>2 DEF Tracks
  <2> QED
    BY <2>1, <2>4, <2>8, <2>9 DEF Types
<1> QED
  BY <1>1, IsInRectangle DEF StaysOnLine

\* Every pixel of draw_line() is between its ends and one of the nearest to the straight
\* line.
THEOREM NearestPixels == Spec => []StaysOnLine
BY OnLine, InvHolds, PTL

-----------------------------------------------------------------------------
(* The game.                                                               *)

\* The snake is in the buffer.
FrameInBuf ==
  main_pc \notin {"init", "first", "end"} => Game!Offset(snake_x, snake_y) \in buf

\* Of the pixels that blit() has copied the screen agrees with the buffer, and so it
\* does with all of them when blit() has returned.
ScreenShowsBuffer ==
  /\ main_pc = "blit" => \A i \in Game!Memory : i < copied => (i \in fb_mem <=> i \in buf)
  /\ main_pc \in {"key", "key2", "key3"} => fb_mem = buf

\* While a frame is copied there is a place n of the new frame that is not after a
\* place o of the frame before; o is on the screen until n is.
InSight(n, o) == n \in buf /\ n <= o /\ (o \in fb_mem \/ n < copied)

OldOrNew == main_pc = "blit" /\ ~ahead => \E n, o \in Game!Memory : InSight(n, o)

\* There is no frame before the first.
NoMoveYet == main_pc \in {"init", "first"} => ahead

GInv == GameTypeOK /\ FollowsArrows /\ FrameInBuf /\ ScreenShowsBuffer /\ OldOrNew /\ NoMoveYet

\* A pixel of the screen has a place in its memory.
LEMMA OffsetInMemory ==
  ASSUME NEW x \in 0..MAX_X, NEW y \in 0..MAX_Y
  PROVE  Game!Offset(x, y) \in Game!Memory
<1> DEFINE w == MAX_X + 1
<1>1. w \in Nat /\ x \in 0..w - 1 /\ MAX_Y \in Nat
  BY ScreenAssumption
<1>2. y * w \in Nat /\ y * w <= MAX_Y * w /\ MAX_Y * w \in Nat
  BY <1>1
<1>3. w * (MAX_Y + 1) = MAX_Y * w + w
  BY <1>1
<1>4. Game!Offset(x, y) = y * w + x /\ Game!Memory = 0..w * (MAX_Y + 1) - 1
  BY DEF Game!Offset, Game!Memory, Game!NumPixels, Game!xres_virtual, Game!yres_virtual
<1> HIDE DEF w
<1> QED
  BY <1>1, <1>2, <1>3, <1>4

\* move_snake() wraps round as the remainder does.
LEMMA WrapsRound ==
  ASSUME NEW max \in Nat \ {0}, NEW c \in 0..max, NEW d \in {-1, 0, 1}
  PROVE  Game!Wrap(c + d, max) = (c + d) % (max + 1) /\ Game!Wrap(c + d, max) \in 0..max
BY DEF Game!Wrap

\* Nothing is drawn yet.
LEMMA GameStarts == Game!Init => GInv
<1> SUFFICES ASSUME Game!Init PROVE GInv
  OBVIOUS
<1>1. 0 \in 0..MAX_X /\ MAX_Y \in 0..MAX_Y
  BY ScreenAssumption
<1>2. 0 \in 0..Game!NumPixels
  BY ScreenAssumption DEF Game!NumPixels, Game!xres_virtual, Game!yres_virtual
<1> QED
  BY <1>1, <1>2
     DEF Game!Init, GInv, GameTypeOK, Game!TypeOK, FollowsArrows, Game!FollowsArrows,
         FrameInBuf, ScreenShowsBuffer, OldOrNew, NoMoveYet, Game!Char

\* blit() copies a pixel, or it is done and the screen is the buffer.
LEMMA BlitKeeps ==
  ASSUME GInv, Game!Blit
  PROVE  GInv'
<1>1. Game!TypeOK /\ Game!NumPixels \in Nat /\ Game!Memory = 0..Game!NumPixels - 1
  BY ScreenAssumption DEF GInv, GameTypeOK, Game!Memory, Game!NumPixels, Game!xres_virtual, Game!yres_virtual
<1>2. /\ UNCHANGED <<snake_x, snake_y, ahead, walk_x, walk_y, buf, key, terminal, term_settings>>
      /\ main_pc = "blit"
  BY DEF Game!Blit, Game!place, Game!modes
<1>3. UNCHANGED Game!Offset(snake_x, snake_y)
  BY <1>2 DEF Game!Offset
<1>4. CASE copied < Game!NumPixels
  <2>1. /\ fb_mem' = IF copied \in buf THEN fb_mem \cup {copied} ELSE fb_mem \ {copied}
        /\ copied' = copied + 1 /\ main_pc' = "blit"
    BY <1>4 DEF Game!Blit
  <2>2. copied \in Nat /\ copied \in Game!Memory
    BY <1>1, <1>4 DEF Game!TypeOK
  <2>3. GameTypeOK'
    BY <1>1, <1>2, <1>4, <2>1, <2>2 DEF GameTypeOK, Game!TypeOK
  <2>4. ScreenShowsBuffer'
    <3>1. ASSUME NEW i \in Game!Memory, i < copied + 1 PROVE i \in fb_mem' <=> i \in buf
      <4>1. CASE i = copied
        BY <2>1, <4>1
      <4>2. CASE i # copied
        <5>1. i < copied
          BY <1>1, <2>2, <3>1, <4>2
        <5>2. i \in fb_mem <=> i \in buf
          BY <5>1, <1>2 DEF GInv, ScreenShowsBuffer
        <5> QED
          BY <5>2, <4>2, <2>1
      <4> QED
        BY <4>1, <4>2
    <3> QED
      BY <1>2, <2>1, <3>1 DEF ScreenShowsBuffer
  <2>5. OldOrNew'
    <3> SUFFICES ASSUME ~ahead PROVE \E n, o \in Game!Memory : InSight(n, o)'
      BY <1>2 DEF OldOrNew
    <3>1. PICK n \in Game!Memory, o \in Game!Memory : InSight(n, o)
      BY <1>2 DEF GInv, OldOrNew
    <3>2. o \in fb_mem' \/ n < copied'
      <4>1. CASE o = copied
        BY <1>1, <2>1, <2>2, <3>1, <4>1 DEF InSight
      <4>2. CASE o # copied
        BY <1>1, <2>1, <2>2, <3>1, <4>2 DEF InSight
      <4> QED
        BY <4>1, <4>2
    <3> QED
      BY <1>2, <3>1, <3>2 DEF InSight
  <2> QED
    BY <1>2, <1>3, <2>1, <2>3, <2>4, <2>5
       DEF GInv, FollowsArrows, Game!FollowsArrows, FrameInBuf, NoMoveYet
<1>5. CASE ~(copied < Game!NumPixels)
  <2>1. main_pc' = "key" /\ UNCHANGED <<fb_mem, copied>>
    BY <1>5 DEF Game!Blit
  <2>2. copied = Game!NumPixels
    BY <1>1, <1>5 DEF Game!TypeOK
  <2>3. fb_mem = buf
    <3>1. \A i \in Game!Memory : i < copied
      BY <1>1, <2>2
    <3>2. fb_mem \subseteq Game!Memory /\ buf \subseteq Game!Memory
      BY <1>1 DEF Game!TypeOK
    <3> QED
      BY <3>1, <3>2, <1>2 DEF GInv, ScreenShowsBuffer
  <2> QED
    BY <1>1, <1>2, <1>3, <2>1, <2>3
       DEF GInv, GameTypeOK, Game!TypeOK, FollowsArrows, Game!FollowsArrows,
           FrameInBuf, ScreenShowsBuffer, OldOrNew, NoMoveYet
<1> QED
  BY <1>4, <1>5

\* A smaller coordinate is an earlier place in memory.
LEMMA EarlierPlace ==
  ASSUME NEW x \in 0..MAX_X, NEW y \in 0..MAX_Y, NEW u \in 0..MAX_X, NEW v \in 0..MAX_Y,
         x <= u, y <= v
  PROVE  Game!Offset(x, y) <= Game!Offset(u, v)
<1>1. y * (MAX_X + 1) <= v * (MAX_X + 1)
  BY ScreenAssumption
<1> QED
  BY <1>1, ScreenAssumption DEF Game!Offset, Game!xres_virtual

\* A frame begins where the one before ends, and that one is on the screen; or the
\* snake wraps and the line is a point, which over the right or the lower edge is
\* earlier in memory.
LEMMA ArrowKeeps ==
  ASSUME GInv, NEW c \in Game!Char, Game!Arrow(c)
  PROVE  GInv'
<1> DEFINE dx == Game!StepX(c)
           dy == Game!StepY(c)
           sx == Game!Start(snake_x, snake_x + dx, MAX_X)
           sy == Game!Start(snake_y, snake_y + dy, MAX_Y)
           ex == Game!Wrap(snake_x + dx, MAX_X)
           ey == Game!Wrap(snake_y + dy, MAX_Y)
<1>1. Game!TypeOK
  BY DEF GInv, GameTypeOK
<1>2. dx \in {-1, 0, 1} /\ dy \in {-1, 0, 1} /\ (dx = 0 \/ dy = 0)
  BY DEF Game!StepX, Game!StepY, Game!UP, Game!DOWN, Game!LEFT, Game!RIGHT
<1>3. /\ snake_x' = ex /\ snake_y' = ey
      /\ buf' = Game!DrawLine({}, sx, sy, ex, ey) /\ fb_mem' = fb_mem
      /\ ahead' = ((c = Game!LEFT /\ walk_x = 0) \/ (c = Game!UP /\ walk_y = 0))
      /\ main_pc = "key3" /\ main_pc' = "blit" /\ copied' = 0
      /\ walk_x' = (walk_x + dx) % (MAX_X + 1)
      /\ walk_y' = (walk_y + dy) % (MAX_Y + 1)
      /\ UNCHANGED <<key, terminal, term_settings>>
  BY DEF Game!Arrow, Game!MoveSnake, Game!Frame, Game!modes, Game!xres_virtual, Game!yres_virtual
<1>a. /\ dx = -1 => c = Game!LEFT
      /\ dy = -1 => c = Game!UP
  BY DEF Game!StepX, Game!StepY
<1> HIDE DEF dx, dy
<1>4. snake_x \in 0..MAX_X /\ snake_y \in 0..MAX_Y /\ walk_x = snake_x /\ walk_y = snake_y
  BY <1>1 DEF Game!TypeOK, GInv, FollowsArrows, Game!FollowsArrows
<1>5. /\ ex = (snake_x + dx) % (MAX_X + 1) /\ ex \in 0..MAX_X
      /\ ey = (snake_y + dy) % (MAX_Y + 1) /\ ey \in 0..MAX_Y
  BY <1>2, <1>4, WrapsRound, ScreenAssumption
<1>6. /\ sx = (IF snake_x + dx \in 0..MAX_X THEN snake_x ELSE ex) /\ sx \in 0..MAX_X
      /\ sy = (IF snake_y + dy \in 0..MAX_Y THEN snake_y ELSE ey) /\ sy \in 0..MAX_Y
  BY <1>4, <1>5 DEF Game!Start
<1>7. (sx = snake_x /\ sy = snake_y) \/ (sx = ex /\ sy = ey)
  <2>1. dx = 0 => sx = snake_x /\ ex = snake_x
    BY <1>4, <1>6, ScreenAssumption DEF Game!Wrap
  <2>2. dy = 0 => sy = snake_y /\ ey = snake_y
    BY <1>4, <1>6, ScreenAssumption DEF Game!Wrap
  <2>3. (sx = snake_x \/ sx = ex) /\ (sy = snake_y \/ sy = ey)
    BY <1>6
  <2> HIDE DEF sx, sy, ex, ey
  <2> QED
    BY <1>2, <2>1, <2>2, <2>3
<1>b. /\ dx = 0 => sx = snake_x /\ ex = snake_x
      /\ dy = 0 => sy = snake_y /\ ey = snake_y
      /\ dx = 1 => sx = snake_x \/ ex = 0
      /\ dy = 1 => sy = snake_y \/ ey = 0
      /\ dx = -1 => sx = snake_x \/ snake_x = 0
      /\ dy = -1 => sy = snake_y \/ snake_y = 0
  BY <1>4, <1>6, ScreenAssumption DEF Game!Wrap
<1> HIDE DEF sx, sy, ex, ey
<1>8. \A x \in 0..MAX_X, y \in 0..MAX_Y : Game!Drawn(x, y)
  BY ScreenAssumption DEF Game!Drawn, Game!xres_virtual, Game!yres_virtual
<1>9. Game!Offset(sx, sy) \in buf' /\ Game!Offset(ex, ey) \in buf'
  <2>1. {sx, ex} \subseteq Game!Span(sx, ex) /\ {sy, ey} \subseteq Game!Span(sy, ey)
    BY <1>5, <1>6 DEF Game!Span
  <2>2. \A x \in Game!Span(sx, ex), y \in Game!Span(sy, ey) :
          Game!Drawn(x, y) => Game!Offset(x, y) \in Game!DrawLine({}, sx, sy, ex, ey)
    <3> SUFFICES ASSUME NEW x \in Game!Span(sx, ex), NEW y \in Game!Span(sy, ey), Game!Drawn(x, y)
                 PROVE  Game!Offset(x, y) \in Game!DrawLine({}, sx, sy, ex, ey)
      OBVIOUS
    <3>1. <<x, y>> \in {p \in Game!Span(sx, ex) \X Game!Span(sy, ey) : Game!Drawn(p[1], p[2])}
      OBVIOUS
    <3> QED
      BY <3>1 DEF Game!DrawLine
  <2> QED
    BY <1>3, <1>5, <1>6, <1>8, <2>1, <2>2
<1>10. buf' \subseteq Game!Memory
  <2>1. Game!Span(sx, ex) \subseteq 0..MAX_X /\ Game!Span(sy, ey) \subseteq 0..MAX_Y
    BY <1>5, <1>6, ScreenAssumption DEF Game!Span
  <2>2. ASSUME NEW o \in Game!DrawLine({}, sx, sy, ex, ey) PROVE o \in Game!Memory
    <3>1. PICK x \in Game!Span(sx, ex), y \in Game!Span(sy, ey) : o = Game!Offset(x, y)
      BY <2>2 DEF Game!DrawLine
    <3> QED
      BY <3>1, <2>1, OffsetInMemory
  <2> QED
    BY <1>3, <2>2
<1>11. ahead' \in BOOLEAN
  BY <1>3
<1>12. 0 \in 0..Game!NumPixels
  BY ScreenAssumption DEF Game!NumPixels, Game!xres_virtual, Game!yres_virtual
<1>13. GameTypeOK'
  BY <1>1, <1>3, <1>4, <1>5, <1>10, <1>11, <1>12 DEF GameTypeOK, Game!TypeOK
<1>14. FollowsArrows'
  BY <1>3, <1>4, <1>5 DEF FollowsArrows, Game!FollowsArrows
<1>15. OldOrNew'
  <2> SUFFICES ASSUME ~ahead'
               PROVE  \E n, o \in Game!Memory : InSight(n, o)'
    BY DEF OldOrNew
  <2>1. PICK o \in Game!Memory : o = Game!Offset(snake_x, snake_y)
    BY <1>4, OffsetInMemory
  <2>2. PICK e \in Game!Memory : e = Game!Offset(ex, ey)
    BY <1>5, OffsetInMemory
  <2>3. o \in fb_mem' /\ e \in buf'
    BY <1>3, <1>9, <2>1, <2>2 DEF GInv, FrameInBuf, ScreenShowsBuffer
  <2>4. CASE sx = snake_x /\ sy = snake_y
    <3>1. o \in buf' /\ o <= o
      BY <1>9, <2>1, <2>4 DEF Game!Memory
    <3> QED
      BY <2>3, <3>1 DEF InSight
  <2>5. CASE ~(sx = snake_x /\ sy = snake_y)
    <3>1. ~(c = Game!LEFT /\ walk_x = 0) /\ ~(c = Game!UP /\ walk_y = 0)
      BY <1>3
    <3>2. dx # -1 /\ dy # -1
      BY <1>2, <1>4, <1>a, <1>b, <2>5, <3>1
    <3>3. ex <= snake_x /\ ey <= snake_y
      BY <1>2, <1>4, <1>b, <2>5, <3>2
    <3>4. e <= o
      BY <1>4, <1>5, <2>1, <2>2, <3>3, EarlierPlace
    <3> QED
      BY <2>3, <3>4 DEF InSight
  <2> QED
    BY <2>4, <2>5
<1>16. FrameInBuf'
  <2>1. Game!Offset(snake_x, snake_y)' = Game!Offset(ex, ey)
    BY <1>3 DEF Game!Offset
  <2> QED
    BY <1>3, <1>9, <2>1 DEF FrameInBuf
<1>17. ScreenShowsBuffer' /\ NoMoveYet'
  <2>1. \A i \in Game!Memory : ~(i < 0)
    BY ScreenAssumption DEF Game!Memory
  <2> QED
    BY <1>3, <2>1 DEF ScreenShowsBuffer, NoMoveYet
<1> QED
  BY <1>13, <1>14, <1>15, <1>16, <1>17 DEF GInv

\* The first frame.
LEMMA DrawStartKeeps ==
  ASSUME GInv, Game!DrawStart
  PROVE  GInv'
<1>1. Game!TypeOK
  BY DEF GInv, GameTypeOK
<1>2. /\ UNCHANGED <<snake_x, snake_y, ahead, walk_x, walk_y, fb_mem, key, terminal, term_settings>>
      /\ main_pc = "first" /\ main_pc' = "blit" /\ copied' = 0
      /\ buf' = Game!DrawPixel(buf, snake_x, snake_y)
  BY DEF Game!DrawStart, Game!place, Game!modes
<1>3. UNCHANGED Game!Offset(snake_x, snake_y)
  BY <1>2 DEF Game!Offset
<1>4. Game!Drawn(snake_x, snake_y)
  BY <1>1, ScreenAssumption DEF Game!TypeOK, Game!Drawn, Game!xres_virtual, Game!yres_virtual
<1>5. buf' = buf \cup {Game!Offset(snake_x, snake_y)}
  BY <1>2, <1>4 DEF Game!DrawPixel
<1>6. Game!Offset(snake_x, snake_y) \in Game!Memory
  BY <1>1, OffsetInMemory DEF Game!TypeOK
<1>7. ahead
  BY <1>2 DEF GInv, NoMoveYet
<1>8. 0 \in 0..Game!NumPixels /\ \A i \in Game!Memory : ~(i < 0)
  BY ScreenAssumption DEF Game!NumPixels, Game!xres_virtual, Game!yres_virtual, Game!Memory
<1>9. GameTypeOK'
  BY <1>1, <1>2, <1>5, <1>6, <1>8 DEF GameTypeOK, Game!TypeOK
<1> QED
  BY <1>2, <1>3, <1>5, <1>7, <1>8, <1>9
     DEF GInv, FollowsArrows, Game!FollowsArrows, FrameInBuf, ScreenShowsBuffer, OldOrNew, NoMoveYet

\* The calls that draw nothing.
LEMMA CallsKeep ==
  ASSUME GInv,
         \/ Game!InitGraphics \/ Game!ExitGraphics
         \/ \E c \in Game!Char : Game!ReadKey(c) \/ Game!ReadKey2(c)
  PROVE  GInv'
<1>1. Game!TypeOK
  BY DEF GInv, GameTypeOK
<1>2. UNCHANGED <<snake_x, snake_y, ahead, walk_x, walk_y, buf, copied>> /\ main_pc' # "blit"
  BY DEF Game!InitGraphics, Game!ExitGraphics, Game!ReadKey, Game!ReadKey2, Game!place
<1>3. UNCHANGED Game!Offset(snake_x, snake_y)
  BY <1>2 DEF Game!Offset
<1>4. GameTypeOK'
  <2>1. CASE Game!InitGraphics
    BY <1>1, <2>1 DEF GameTypeOK, Game!TypeOK, Game!InitGraphics, Game!place, Game!Mode
  <2>2. CASE Game!ExitGraphics
    BY <1>1, <2>2 DEF GameTypeOK, Game!TypeOK, Game!ExitGraphics, Game!place, Game!Mode
  <2>3. CASE \E c \in Game!Char : Game!ReadKey(c) \/ Game!ReadKey2(c)
    BY <1>1, <2>3 DEF GameTypeOK, Game!TypeOK, Game!ReadKey, Game!ReadKey2, Game!place, Game!modes, Game!Char
  <2> QED
    BY <2>1, <2>2, <2>3
<1>5. /\ FrameInBuf' /\ ScreenShowsBuffer' /\ NoMoveYet'
  BY <1>2, <1>3
     DEF GInv, FrameInBuf, ScreenShowsBuffer, NoMoveYet, Game!InitGraphics, Game!ExitGraphics, Game!ReadKey, Game!ReadKey2
<1> QED
  BY <1>2, <1>4, <1>5 DEF GInv, FollowsArrows, Game!FollowsArrows, OldOrNew

\* Drawing lines leaves the game alone.
LEMMA GameInductive == GInv /\ [ProgramsNext]_<<program, vars, game_vars>> => GInv'
<1> SUFFICES ASSUME GInv, [ProgramsNext]_<<program, vars, game_vars>> PROVE GInv'
  OBVIOUS
<1>1. CASE PlayGame
  BY <1>1, BlitKeeps, ArrowKeeps, DrawStartKeeps, CallsKeep DEF PlayGame, Game!Next
<1>2. CASE UNCHANGED game_vars
  BY <1>2 DEF game_vars, GInv, GameTypeOK, Game!TypeOK, FollowsArrows, Game!FollowsArrows,
    FrameInBuf, ScreenShowsBuffer, OldOrNew, InSight, NoMoveYet, Game!Offset
<1> QED
  BY <1>1, <1>2 DEF ProgramsNext, DrawLines

-----------------------------------------------------------------------------
(* The programs.                                                           *)

\* The invariant of the game, in every program.
LEMMA GameHolds == ProgramsSpec => []GInv
<1>1. ProgramsInit => GInv
  BY GameStarts DEF ProgramsInit
<1> QED
  BY <1>1, GameInductive, PTL DEF ProgramsSpec

\* What blit() has copied is what the buffer held: of a frame half copied the part
\* before copied is the new frame's, and after blit() the screen is the frame, no pixel
\* of it off the screen, whatever size the screen has.
THEOREM FramesOnScreen == ProgramsSpec => [](GameTypeOK /\ ScreenShowsBuffer)
<1>1. GInv => GameTypeOK /\ ScreenShowsBuffer
  BY DEF GInv
<1> QED
  BY <1>1, GameHolds, PTL

\* The snake is where the arrows lead it, on a screen of any size.
THEOREM SnakeFollowsArrows == ProgramsSpec => []FollowsArrows
<1>1. GInv => FollowsArrows
  BY DEF GInv
<1> QED
  BY <1>1, GameHolds, PTL

\* blit() never shows a screen without a snake, but for the first frame and one in which
\* the snake goes over the left or the upper edge.
THEOREM SnakeStaysVisible == ProgramsSpec => []NeverBlank
<1>1. GInv => NeverBlank
  BY DEF GInv, OldOrNew, InSight, ScreenShowsBuffer, NeverBlank, Game!NeverBlank
<1> QED
  BY <1>1, GameHolds, PTL

\* What is proved of draw_line() holds of the programs: its lines end at their ends and
\* keep to the straight line between them.
THEOREM ProgramsDrawLines == ProgramsSpec => [](EndsAtEnd /\ StaysOnLine /\ TypeOK)
<1>1. ProgramsInit => IInv
  BY InitInv DEF ProgramsInit
<1>2. IInv /\ [ProgramsNext]_<<program, vars, game_vars>> => IInv'
  <2>1. [ProgramsNext]_<<program, vars, game_vars>> => [Next]_vars
    BY DEF ProgramsNext, PlayGame, DrawLines
  <2> QED
    BY <2>1, Inductive
<1>3. IInv => EndsAtEnd
  BY DEF IInv
<1> QED
  BY <1>1, <1>2, <1>3, LineTypes, OnLine, PTL DEF ProgramsSpec

=============================================================================
