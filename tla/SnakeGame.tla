----------------------------- MODULE SnakeGame -----------------------------
(***************************************************************************)
(* The game Project_1/snake.c with the calls it makes of the graphics      *)
(* library Project_1/library.c: it draws in a buffer of its own and copies *)
(* the buffer to the screen, pixel by pixel, while the user looks on.      *)
(*                                                                         *)
(* A buffer is the set of the places in memory that have the colour of the *)
(* snake.  The screen has the size that MAX_X and MAX_Y tell.  Time        *)
(* (sleep_ms) is left out.                                                 *)
(***************************************************************************)
EXTENDS Integers

CONSTANTS MAX_X, MAX_Y

xres_virtual == MAX_X + 1
yres_virtual == MAX_Y + 1
NumPixels == xres_virtual * yres_virtual
Memory == 0..NumPixels - 1

UP == "up"
DOWN == "down"
RIGHT == "right"
LEFT == "left"
Char == {"esc", "[", UP, DOWN, RIGHT, LEFT, "q", "other"}

VARIABLES
  curr_x, curr_y,
  buf,            \* the offscreen buffer
  fb_mem,         \* the screen
  copied,         \* the pixels that blit() has copied
  key,            \* the last character read, where a later one decides
  pc,             \* the call main() makes next
  terminal,       \* the modes of the terminal that are on
  term_settings,  \* the program's copy of them
  ahead,          \* history: the frame in buf is the first, or its arrow led over
                  \* the left or the upper edge, to a place further on in memory
  walk_x, walk_y  \* history: the start and all arrows added up

place == <<curr_x, curr_y, ahead, walk_x, walk_y>>
modes == <<terminal, term_settings>>
vars == <<place, buf, fb_mem, copied, key, pc, modes>>

Mode == {"ICANON", "ECHO", "cursor"}

TypeOK ==
  /\ curr_x \in 0..MAX_X /\ curr_y \in 0..MAX_Y
  /\ walk_x \in 0..MAX_X /\ walk_y \in 0..MAX_Y
  /\ buf \subseteq Memory /\ fb_mem \subseteq Memory /\ ahead \in BOOLEAN
  /\ copied \in 0..NumPixels
  /\ key \in Char
  /\ pc \in {"init", "first", "blit", "key", "key2", "key3", "exit", "end"}
  /\ terminal \subseteq Mode /\ term_settings \subseteq Mode

-----------------------------------------------------------------------------
(* The library.                                                            *)

\* Where draw_pixel() stores the pixel.
Offset(x, y) == y * xres_virtual + x

\* The pixels draw_pixel() does not drop.
Drawn(x, y) == ~(x < 0 \/ y < 0 \/ x > xres_virtual \/ y > yres_virtual)

DrawPixel(img, x, y) == IF Drawn(x, y) THEN img \cup {Offset(x, y)} ELSE img

Span(a, b) == IF a <= b THEN a..b ELSE b..a

\* draw_line() for ends in one row or one column, where module LineDrawing
\* allows no pixel but those between.
DrawLine(img, x1, y1, x2, y2) ==
  img \cup {Offset(p[1], p[2]) :
              p \in {q \in Span(x1, x2) \X Span(y1, y2) : Drawn(q[1], q[2])}}

\* getkey(): any character; also where select() or read() fails and it returns
\* a byte that was never set.
GetKey(c) == c \in Char

-----------------------------------------------------------------------------
(* snake.c.                                                                *)

Init ==
  /\ curr_x = 0 /\ curr_y = MAX_Y
  /\ walk_x = 0 /\ walk_y = MAX_Y
  /\ ahead = TRUE
  /\ buf = {} /\ fb_mem = {} /\ copied = 0
  /\ key = "other"
  /\ pc = "init"
  /\ terminal = Mode /\ term_settings = {}

\* The terminal is set up, the screen cleared.
InitGraphics ==
  /\ pc = "init" /\ pc' = "first"
  /\ term_settings' = (terminal \ {"cursor"}) \ {"ICANON", "ECHO"}
  /\ terminal' = term_settings'
  /\ fb_mem' = {}
  /\ UNCHANGED <<place, buf, copied, key>>

\* The first frame.
DrawStart ==
  /\ pc = "first" /\ pc' = "blit"
  /\ buf' = DrawPixel(buf, curr_x, curr_y)
  /\ copied' = 0
  /\ UNCHANGED <<place, fb_mem, key, modes>>

\* blit(): the next pixel, and in the end the next key.
Blit ==
  /\ pc = "blit"
  /\ IF copied < NumPixels
       THEN /\ fb_mem' = IF copied \in buf THEN fb_mem \cup {copied} ELSE fb_mem \ {copied}
            /\ copied' = copied + 1
            /\ UNCHANGED pc
       ELSE pc' = "key" /\ UNCHANGED <<fb_mem, copied>>
  /\ UNCHANGED <<place, buf, key, modes>>

ReadKey(c) ==
  /\ pc = "key" /\ GetKey(c)
  /\ pc' = "key2"
  /\ key' = c
  /\ UNCHANGED <<place, buf, fb_mem, copied, modes>>

\* The second character: an arrow key begins with ESC and [.
ReadKey2(c) ==
  /\ pc = "key2" /\ GetKey(c)
  /\ pc' = IF key = "esc" /\ c = "[" THEN "key3"
           ELSE IF key = "q" THEN "exit" ELSE "key"
  /\ key' = "other"
  /\ UNCHANGED <<place, buf, fb_mem, copied, modes>>

StepX(c) == CASE c = RIGHT -> 1 [] c = LEFT -> -1 [] OTHER -> 0
StepY(c) == CASE c = DOWN -> 1 [] c = UP -> -1 [] OTHER -> 0

\* Mutant: > for >= with the size of the screen.
WrapLate(new, max) == IF new > max + 1 THEN 0 ELSE IF new < 0 THEN max ELSE new

\* Mutant: the snake stops at the edge.
WrapNot(new, max) == IF new > max THEN max ELSE IF new < 0 THEN 0 ELSE new

Wrap(new, max) == IF new > max THEN 0 ELSE IF new < 0 THEN max ELSE new

\* Where the line starts: at its end, if the snake wraps.
Start(curr, new, max) == IF new \in 0..max THEN curr ELSE Wrap(new, max)

\* Mutant: the line is drawn on the screen, cleared before.
FrameOnScreen(x1, y1, x2, y2) ==
  /\ buf' = DrawLine({}, x1, y1, x2, y2)
  /\ fb_mem' = {}

\* clear_screen(buf) and the line.
Frame(x1, y1, x2, y2) ==
  /\ buf' = DrawLine({}, x1, y1, x2, y2)
  /\ UNCHANGED fb_mem

\* move_snake(buf, new_x, new_y)
MoveSnake(new_x, new_y) ==
  LET x1 == Start(curr_x, new_x, MAX_X)
      y1 == Start(curr_y, new_y, MAX_Y) IN
  /\ curr_x' = Wrap(new_x, MAX_X)
  /\ curr_y' = Wrap(new_y, MAX_Y)
  /\ Frame(x1, y1, Wrap(new_x, MAX_X), Wrap(new_y, MAX_Y))

\* The third character of an arrow key: the next frame is drawn.
Arrow(c) ==
  /\ pc = "key3" /\ GetKey(c)
  /\ pc' = "blit" /\ copied' = 0
  /\ MoveSnake(curr_x + StepX(c), curr_y + StepY(c))
  /\ walk_x' = (walk_x + StepX(c)) % xres_virtual
  /\ walk_y' = (walk_y + StepY(c)) % yres_virtual
  /\ ahead' = ((c = LEFT /\ walk_x = 0) \/ (c = UP /\ walk_y = 0))
  /\ UNCHANGED <<key, modes>>

\* The screen is cleared too.
ExitGraphics ==
  /\ pc = "exit" /\ pc' = "end"
  /\ term_settings' = term_settings \cup {"ICANON", "ECHO"}
  /\ terminal' = term_settings' \cup {"cursor"}
  /\ fb_mem' = {}
  /\ UNCHANGED <<place, buf, copied, key>>

Next ==
  \/ InitGraphics \/ DrawStart \/ Blit
  \/ \E c \in Char : ReadKey(c) \/ ReadKey2(c) \/ Arrow(c)
  \/ ExitGraphics

Spec == Init /\ [][Next]_vars

-----------------------------------------------------------------------------
\* The snake is where the arrows lead, round the edges of the screen, whatever
\* other characters come in between.
FollowsArrows == curr_x = walk_x /\ curr_y = walk_y

\* While blit() copies a frame pixel by pixel the user never sees a screen without
\* a snake: the new line begins at the old place, or blit() comes to the new place
\* before it comes to the old one.  But for the first frame, and for one in which
\* the snake goes over the left or the upper edge: there the old place is erased
\* first, and the screen may be blank until the new one is copied.
NeverBlank == pc = "blit" /\ ~ahead => fb_mem # {}

=============================================================================
