------------------------------ MODULE Graphics ------------------------------
(***************************************************************************)
(* The programs that are linked with Project_1/library.c: the game, which  *)
(* draws its own short lines (module SnakeGame), and any program that      *)
(* draws lines from anywhere to anywhere (module LineDrawing, extended     *)
(* here).  One of the two runs; the variables of the other stay as they    *)
(* are in the beginning.                                                   *)
(***************************************************************************)
EXTENDS LineDrawing

CONSTANTS MAX_X, MAX_Y  \* the size of the game's screen, less one

ASSUME ScreenAssumption == MAX_X \in Nat \ {0} /\ MAX_Y \in Nat \ {0}

VARIABLES
  program,                                  \* "game" or "lines"
  snake_x, snake_y, ahead, walk_x, walk_y,  \* the variables of the game
  buf, fb_mem, copied, key, main_pc, terminal, term_settings

game_vars == <<snake_x, snake_y, ahead, walk_x, walk_y,
               buf, fb_mem, copied, key, main_pc, terminal, term_settings>>

Game == INSTANCE SnakeGame WITH
  curr_x <- snake_x,
  curr_y <- snake_y,
  pc     <- main_pc

ProgramsInit ==
  /\ Init
  /\ Game!Init
  /\ \/ program = "game" /\ x1 = Low /\ y1 = Low
     \/ program = "lines"

PlayGame == program = "game" /\ Game!Next /\ UNCHANGED <<program, vars>>

DrawLines == program = "lines" /\ Next /\ UNCHANGED <<program, game_vars>>

ProgramsNext == PlayGame \/ DrawLines

ProgramsSpec == ProgramsInit /\ [][ProgramsNext]_<<program, vars, game_vars>>

-----------------------------------------------------------------------------
\* The types of the game's variables: no place off the screen.
GameTypeOK == Game!TypeOK

\* The snake is where the arrows lead, round the edges of the screen, whatever
\* other characters come in between.
FollowsArrows == Game!FollowsArrows

\* While a frame is copied the user never sees a screen without a snake, but for
\* the first frame and one in which the snake goes over the left or the upper edge.
NeverBlank == Game!NeverBlank

=============================================================================
