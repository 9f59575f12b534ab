------------------------------ MODULE BoomRules ------------------------------
(***************************************************************************)
(* The rules of 7-boom: which move is right for the next number of the     *)
(* game.  check_if_move_has_finished_the_game() and containsDigit() of     *)
(* server/server_game_loop.c, as pure operators.                           *)
(*                                                                         *)
(* A move is the string a client sends: "boom", or a string of digits,     *)
(* which the server compares through strtol() in base 10.  A number move   *)
(* is therefore represented by the value strtol() gives it ("7" and "007"  *)
(* are one move), and "boom" by the model value Boom.                      *)
(***************************************************************************)
EXTENDS Integers

CONSTANTS
  BOOM_NUMBER,   (* the digit and the divisor that call for a boom: 7 *)
  Boom           (* the move "boom"                                   *)

ASSUME BoomNumberAssumption == BOOM_NUMBER \in 1..9
ASSUME BoomAssumption == Boom \notin Int

(* Variants marked "mutant" are plausible mistakes in the definition that
   follows them, which the properties are checked to notice. *)

(* mutant: the leading digit is not compared *)
containsDigitOffByOne(number, digit) ==
  LET scan[n \in Nat] == n >= 10 /\ (n % 10 = digit \/ scan[n \div 10])
  IN  scan[number]

(* The loop of containsDigit(): the last digit is compared, then dropped,
   until nothing is left. *)
containsDigit(number, digit) ==
  LET scan[n \in Nat] == n # 0 /\ (n % 10 = digit \/ scan[n \div 10])
  IN  scan[number]

(* should_guess_boom: either of the two tests sets it. *)
ShouldGuessBoom(next) ==
  \/ containsDigit(next, BOOM_NUMBER) = TRUE
  \/ next % BOOM_NUMBER = 0

(* mutant: a number is right even when a boom is due *)
MoveLosesWithoutBoomCheck(move, next) ==
  IF move = Boom THEN ~ShouldGuessBoom(next) ELSE move # next

(* Whether a move made when the next number is next finishes the game. *)
MoveLoses(move, next) ==
  IF move = Boom
    THEN ~ShouldGuessBoom(next)
    ELSE ShouldGuessBoom(next) \/ move # next

-----------------------------------------------------------------------------
(* The rules without the loop of the code: boom is due when the number is a
   multiple of BOOM_NUMBER or shows it at some place of its decimal form.
   An int has ten of them. *)
PlaceValues == {1, 10, 100, 1000, 10000, 100000, 1000000, 10000000, 100000000, 1000000000}

BoomIsDue(number) ==
  \/ \E q \in 0..number : number = q * BOOM_NUMBER
  \/ \E place \in PlaceValues : (number \div place) % 10 = BOOM_NUMBER

RightMoveFor(number) == IF BoomIsDue(number) THEN Boom ELSE number
=============================================================================
