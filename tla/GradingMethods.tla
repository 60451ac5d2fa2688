---------------------------- MODULE GradingMethods ----------------------------
(***************************************************************************)
(* GradingMethodHandler of problem/capa_block.py: the single score of a    *)
(* problem as a function of the scores of its attempts.                    *)
(*                                                                         *)
(* A score is a natural number of hundredths of a point, because the       *)
(* average is rounded to two decimals; raw_possible is the same for every  *)
(* attempt and is left out.                                                *)
(***************************************************************************)
EXTENDS Naturals, Sequences, FiniteSets, FiniteSetsExt, Functions

\* Whether the mean of a history that lies half-way between two hundredths is
\* rounded up.  The code calls round(x, 2) on a binary float, whose error puts
\* x on one side of the tie or on the other: for <<0, 1>> it rounds up, for
\* <<0, 3>> down.  So the side is left open, for each history.
CONSTANT TieUp(_)

Methods == {"last_score", "first_score", "highest_score", "average_score"}

\* sum(...): the hundredths earned on all attempts, counted one by one.
TotalEarned(history) ==
    Cardinality(UNION {{i} \X (1 .. history[i]) : i \in DOMAIN history})

Rounded_Down(total, n, up) == total \div n

\* round(total / n, 2), in hundredths: the nearest one, and of two the upper
\* one when "up".  A mean that is no tie is further from one than its error.
Rounded(total, n, up) ==
    LET q == total \div n
        r == total % n
    IN  IF 2 * r < n \/ (2 * r = n /\ ~up) THEN q ELSE q + 1

handle_highest_score_FirstOrLast(history) == Max({history[1], history[Len(history)]})

handle_last_score(history)    == history[Len(history)]
handle_first_score(history)   == history[1]
handle_highest_score(history) == Max(Range(history))
handle_average_score(history) == Rounded(TotalEarned(history), Len(history), TieUp(history))

\* __init__: an empty history is replaced by the score passed in.
SeededHistory(score, history) == IF history = << >> THEN <<score>> ELSE history

get_score(method, history) ==
    CASE method = "last_score"    -> handle_last_score(history)
      [] method = "first_score"   -> handle_first_score(history)
      [] method = "highest_score" -> handle_highest_score(history)
      [] method = "average_score" -> handle_average_score(history)
===============================================================================
