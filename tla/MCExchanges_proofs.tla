--------------------------- MODULE MCExchanges_proofs ---------------------------
(***************************************************************************)
(* Proofs about the parts that exchange messages: the results of an LTI    *)
(* provider, the preview of a formula, the small scripts of a problem, and *)
(* the frame of a jsinput with the channel that JSChannel_proofs is about. *)
(***************************************************************************)
EXTENDS JSChannel_proofs
--------------------------------------------------------------------------------
ResultsTyped ==
    /\ DOMAIN lti = {"block", "past_due", "module_score", "score_comment", "gradebook", "got",
                     "running", "made", "given", "apart"}
    /\ DOMAIN lti.module_score = Students /\ DOMAIN lti.score_comment = Students
    /\ DOMAIN lti.gradebook = Students
    /\ \A q \in lti.running : q[2].learner \in Students

(***************************************************************************)
(* A comment that is kept, or is about to be, was given with its score.    *)
(***************************************************************************)
Commented ==
    /\ \A q \in lti.running : q[2].comment # ""
          => <<q[2].learner, q[2].score, q[2].comment>> \in lti.given
    /\ Results!CommentIsOfTheScore

(***************************************************************************)
(* Of a learner whose requests neither failed nor overlapped one is        *)
(* running at most, and the gradebook has what that one will save.         *)
(***************************************************************************)
Copied ==
    /\ \A p, q \in lti.running :
          p # q /\ p[2].learner = q[2].learner => p[2].learner \in lti.apart
    /\ \A q \in lti.running :
          q[2].learner \notin lti.apart => lti.gradebook[q[2].learner] = q[2].score
    /\ Results!GradebookAgrees
ResultsInv == ResultsTyped /\ Commented /\ Copied
--------------------------------------------------------------------------------
\* What is made of a request is of its learner.
LEMMA HandledIsOfLearner ==
    ASSUME NEW s, NEW op \in {"replace", "put", "delete"}, NEW l, NEW score, NEW comment
    PROVE  Results!Handled(s, Results!Result(op, l, score, comment)).learner = l
BY DEF Results!Handled, Results!Result, Results!_lti_2_0_result_put_handler, Results!clear_user_module_score

\* A grade that goes out keeps everything; it is what its request will save.
LEMMA PublishKeeps ==
    ASSUME ResultsInv, NEW op \in {"replace", "put", "delete"}, NEW l \in Students, NEW score, NEW comment,
           Results!Publishes(Results!Result(op, l, score, comment))
    PROVE  ResultsInv'
<1> DEFINE r == Results!Result(op, l, score, comment)
           h == Results!Handled(lti, r)
           new == <<lti.made, h>>
           overlap == IF \E q \in lti.running : q[2].learner = r.learner THEN {r.learner} ELSE {}
<1>1. h.learner = l /\ r.learner = l /\ (h.comment # "" => h.comment = r.comment)
  BY HandledIsOfLearner
  DEF Results!Handled, Results!Result, Results!_lti_2_0_result_put_handler,
      Results!clear_user_module_score
<1>2. lti' = [Results!set_user_module_score(lti, h) EXCEPT
                !.made = @ + 1, !.running = @ \cup {new},
                !.given = @ \cup {<<r.learner, h.score, r.comment>>}, !.apart = @ \cup overlap]
  BY DEF Results!Publishes
<1>3. new[2] = h /\ ((\E q \in lti.running : q[2].learner = l) => overlap = {l})
  BY <1>1
<1> HIDE DEF r, h, new, overlap
<1>4. /\ lti'.gradebook = [lti.gradebook EXCEPT ![l] = h.score]
      /\ lti'.running = lti.running \cup {new}
      /\ lti'.given = lti.given \cup {<<l, h.score, r.comment>>}
      /\ lti'.apart = lti.apart \cup overlap
      /\ lti'.module_score = lti.module_score /\ lti'.score_comment = lti.score_comment
      /\ DOMAIN lti' = DOMAIN lti
  BY <1>1, <1>2 DEF ResultsInv, ResultsTyped, Results!set_user_module_score
<1>5. ResultsTyped'
  BY <1>1, <1>3, <1>4 DEF ResultsInv, ResultsTyped
<1>6. Commented'
  BY <1>1, <1>3, <1>4 DEF ResultsInv, Commented, Results!CommentIsOfTheScore
<1>7. Copied'
  <2>1. \A p, q \in lti'.running :
            p # q /\ p[2].learner = q[2].learner => p[2].learner \in lti'.apart
    BY <1>1, <1>3, <1>4 DEF ResultsInv, Copied
  <2>2. ASSUME NEW q \in lti'.running, q[2].learner \notin lti'.apart
        PROVE  lti'.gradebook[q[2].learner] = q[2].score
    <3>1. DOMAIN lti.gradebook = Students
      BY DEF ResultsInv, ResultsTyped
    <3>2. CASE q = new
      <4>1. q[2].learner = l /\ q[2].score = h.score
        BY <1>1, <1>3, <3>2
      <4> QED
        BY <1>4, <3>1, <4>1
    <3>3. CASE q # new
      <4>1. q \in lti.running /\ q[2].learner \notin lti.apart
        BY <1>4, <2>2, <3>3
      <4>2. q[2].learner # l
        BY <1>3, <1>4, <2>2, <4>1
      <4>3. lti.gradebook[q[2].learner] = q[2].score
        BY <4>1 DEF ResultsInv, Copied
      <4>4. lti'.gradebook[q[2].learner] = lti.gradebook[q[2].learner]
        BY <1>4, <4>2
      <4> QED
        BY <4>3, <4>4
    <3> QED
      BY <3>2, <3>3
  <2>3. Results!GradebookAgrees'
    BY <1>1, <1>3, <1>4 DEF ResultsInv, ResultsTyped, Copied, Results!GradebookAgrees
  <2> QED
    BY <2>1, <2>2, <2>3 DEF Copied
<1> QED
  BY <1>5, <1>6, <1>7 DEF ResultsInv

\* A request that ends saves what is its own; one that fails leaves its learner's copies apart.
LEMMA EndKeeps ==
    ASSUME ResultsInv, NEW q \in lti.running, Results!Saves(q) \/ Results!Fails(q)
    PROVE  ResultsInv'
<1> DEFINE l == q[2].learner
<1>1. CASE Results!Saves(q)
  <2>1. /\ lti'.gradebook = lti.gradebook /\ lti'.running = lti.running \ {q}
        /\ lti'.given = lti.given /\ lti'.apart = lti.apart
        /\ lti'.module_score = [lti.module_score EXCEPT ![l] = q[2].score]
        /\ lti'.score_comment = [lti.score_comment EXCEPT ![l] = q[2].comment]
        /\ DOMAIN lti' = DOMAIN lti
    BY <1>1 DEF Results!Saves, Results!save, ResultsInv, ResultsTyped
  <2>2. ResultsTyped'
    BY <2>1 DEF ResultsInv, ResultsTyped
  <2>3. Commented'
    <3>1. l \in Students /\ DOMAIN lti.score_comment = Students /\ DOMAIN lti.module_score = Students
      BY DEF ResultsInv, ResultsTyped
    <3>2. ASSUME NEW m \in Students, lti'.score_comment[m] # ""
          PROVE  <<m, lti'.module_score[m], lti'.score_comment[m]>> \in lti'.given
      <4>1. CASE m = l
        BY <2>1, <3>1, <3>2, <4>1 DEF ResultsInv, Commented
      <4>2. CASE m # l
        BY <2>1, <3>1, <3>2, <4>2 DEF ResultsInv, Commented, Results!CommentIsOfTheScore
      <4> QED
        BY <4>1, <4>2
    <3> QED
      BY <2>1, <3>2 DEF ResultsInv, Commented, Results!CommentIsOfTheScore
  <2>4. Copied'
    BY <2>1 DEF ResultsInv, ResultsTyped, Copied, Results!GradebookAgrees
  <2> QED
    BY <2>2, <2>3, <2>4 DEF ResultsInv
<1>2. CASE Results!Fails(q)
  <2>1. /\ lti'.gradebook = lti.gradebook /\ lti'.running = lti.running \ {q}
        /\ lti'.given = lti.given /\ lti'.apart = lti.apart \cup {l}
        /\ lti'.module_score = lti.module_score /\ lti'.score_comment = lti.score_comment
        /\ DOMAIN lti' = DOMAIN lti
    BY <1>2 DEF Results!Fails, ResultsInv, ResultsTyped
  <2>2. ResultsTyped' /\ Commented'
    BY <2>1 DEF ResultsInv, ResultsTyped, Commented, Results!CommentIsOfTheScore
  <2>3. Copied'
    BY <2>1 DEF ResultsInv, ResultsTyped, Copied, Results!GradebookAgrees
  <2> QED
    BY <2>2, <2>3 DEF ResultsInv
<1> QED
  BY <1>1, <1>2

\* Every step keeps the copies together.
LEMMA ResultsInductive ==
    /\ Results!Init => ResultsInv
    /\ ResultsInv /\ [Results!Next]_lti => ResultsInv'
<1>1. Results!Init => ResultsInv
  <2> SUFFICES ASSUME Results!Init
               PROVE  ResultsInv
    OBVIOUS
  <2> DEFINE none == [l \in Students |-> Results!NoScore]
             quiet == [l \in Students |-> ""]
             got == [l \in Students |-> [score |-> Results!NoScore, comment |-> ""]]
  <2>0. PICK b \in Results!Settings :
            lti = [block |-> b, past_due |-> FALSE, module_score |-> none, score_comment |-> quiet,
                   gradebook |-> none, got |-> got, running |-> {}, made |-> 0, given |-> {},
                   apart |-> {}]
    BY DEF Results!Init
  <2> HIDE DEF none, quiet, got
  <2>1. /\ lti.running = {} /\ lti.gradebook = none /\ lti.module_score = none
        /\ lti.score_comment = quiet
    BY <2>0
  <2> USE DEF none, quiet
  <2>2. ResultsTyped
    BY <2>1 DEF Results!Init, ResultsTyped
  <2>3. Commented /\ Copied
    BY <2>1 DEF Commented, Copied, Results!CommentIsOfTheScore, Results!GradebookAgrees
  <2> QED
    BY <2>2, <2>3 DEF ResultsInv
<1>2. ASSUME ResultsInv, [Results!Next]_lti
      PROVE  ResultsInv'
  <2>1. ASSUME NEW l \in Students, NEW n \in Scores, NEW c \in Comments \cup {""},
               \/ Results!Publishes(Results!Result("replace", l, n, ""))
               \/ Results!Publishes(Results!Result("put", l, n, c))
        PROVE  ResultsInv'
    BY <1>2, <2>1, PublishKeeps
  <2>2. ASSUME NEW l \in Students, NEW c \in Comments \cup {""},
               \/ Results!Publishes(Results!Result("put", l, Results!NoScore, c))
               \/ Results!Publishes(Results!Result("delete", l, Results!NoScore, ""))
        PROVE  ResultsInv'
    BY <1>2, <2>2, PublishKeeps
  <2>3. ASSUME NEW q \in lti.running, Results!Saves(q) \/ Results!Fails(q)
        PROVE  ResultsInv'
    BY <1>2, <2>3, EndKeeps
  <2>4. ASSUME \/ \E l \in Students : Results!Gets(l)
               \/ Results!is_past_due
               \/ UNCHANGED lti
        PROVE  ResultsInv'
    <3>1. /\ lti'.gradebook = lti.gradebook /\ lti'.running = lti.running
          /\ lti'.given = lti.given /\ lti'.apart = lti.apart
          /\ lti'.module_score = lti.module_score /\ lti'.score_comment = lti.score_comment
          /\ DOMAIN lti' = DOMAIN lti
      BY <1>2, <2>4 DEF Results!Gets, Results!is_past_due, ResultsInv, ResultsTyped
    <3>2. ResultsTyped'
      BY <1>2, <3>1 DEF ResultsInv, ResultsTyped
    <3>3. Commented'
      BY <1>2, <3>1 DEF ResultsInv, Commented, Results!CommentIsOfTheScore
    <3>4. Copied'
      BY <1>2, <3>1 DEF ResultsInv, Copied, Results!GradebookAgrees
    <3> QED
      BY <3>2, <3>3, <3>4 DEF ResultsInv
  <2> QED
    BY <1>2, <2>1, <2>2, <2>3, <2>4 DEF Results!Next
<1> QED
  BY <1>1, <1>2

\* Scores before and after they are multiplied by the weight.
Given == 0..1000
Weighted == 0..5000
MaybeScore == {-1} \cup Weighted
\* What is saved, or about to be, is none or a score of the block's weight at most.
Scored ==
    /\ lti.block \in Results!Settings
    /\ \A q \in lti.running : q[2].score \in MaybeScore
    /\ \A l \in Students : lti.module_score[l] \in MaybeScore

LEMMA WeightedInRange ==
    ASSUME NEW score \in Given, NEW weight \in {1, 5}
    PROVE  score * weight \in Weighted
<1>1. CASE weight = 1
  BY <1>1 DEF Given, Weighted
<1>2. CASE weight = 5
  BY <1>2 DEF Given, Weighted
<1> QED
  BY <1>1, <1>2

LEMMA ScoredInductive ==
    /\ Results!Init => Scored
    /\ ResultsTyped /\ Scored /\ [Results!Next]_lti => Scored'
<1>1. Results!Init => Scored
  <2> SUFFICES ASSUME Results!Init
               PROVE  Scored
    OBVIOUS
  <2> DEFINE none == [l \in Students |-> Results!NoScore]
             quiet == [l \in Students |-> ""]
             got == [l \in Students |-> [score |-> Results!NoScore, comment |-> ""]]
  <2>1. PICK b \in Results!Settings :
            lti = [block |-> b, past_due |-> FALSE, module_score |-> none, score_comment |-> quiet,
                   gradebook |-> none, got |-> got, running |-> {}, made |-> 0, given |-> {},
                   apart |-> {}]
    BY DEF Results!Init
  <2> HIDE DEF none, quiet, got
  <2>2. lti.block = b /\ lti.running = {} /\ lti.module_score = none
    BY <2>1
  <2> QED
    BY <2>2 DEF Scored, none, MaybeScore, Results!NoScore
<1>2. ASSUME ResultsTyped, Scored, [Results!Next]_lti
      PROVE  Scored'
  <2>1. ASSUME NEW op \in {"replace", "put", "delete"}, NEW l \in Students, NEW score, NEW comment,
               op = "delete" => score = Results!NoScore,
               Results!Publishes(Results!Result(op, l, score, comment))
        PROVE  Scored'
    <3> DEFINE r == Results!Result(op, l, score, comment)
               h == Results!Handled(lti, r)
    <3>1. score \in {Results!NoScore} \cup Given
      BY <2>1 DEF Given, Results!Publishes, Results!Result, Results!grade_handler,
                  Results!lti_2_0_result_rest_handler, Results!Full
    <3>2. lti.block.weight \in {1, 5}
      BY <1>2 DEF Scored, Results!Settings
    <3>3. h.score \in {Results!NoScore, score * lti.block.weight}
          /\ (score = Results!NoScore => h.score = Results!NoScore)
      BY DEF Results!Handled, Results!Result, Results!_lti_2_0_result_put_handler,
             Results!clear_user_module_score, Results!max_score
    <3> HIDE DEF h
    <3>4. h.score \in MaybeScore
      <4>1. CASE score = Results!NoScore
        BY <3>3, <4>1 DEF MaybeScore, Results!NoScore
      <4>2. CASE score \in Given
        <5>1. score * lti.block.weight \in Weighted
          BY <3>2, <4>2, WeightedInRange
        <5> QED
          BY <3>3, <5>1 DEF MaybeScore, Results!NoScore
      <4> QED
        BY <3>1, <4>1, <4>2
    <3>5. /\ lti'.running = lti.running \cup {<<lti.made, h>>}
          /\ lti'.module_score = lti.module_score /\ lti'.block = lti.block
      BY <1>2, <2>1 DEF Results!Publishes, ResultsTyped, Results!set_user_module_score, h
    <3> QED
      BY <1>2, <3>4, <3>5 DEF Scored
  <2>2. ASSUME NEW q \in lti.running, Results!Saves(q)
        PROVE  Scored'
    <3>1. /\ lti'.running = lti.running \ {q} /\ lti'.block = lti.block
          /\ lti'.module_score = [lti.module_score EXCEPT ![q[2].learner] = q[2].score]
      BY <1>2, <2>2 DEF Results!Saves, Results!save, ResultsTyped
    <3> QED
      BY <1>2, <3>1 DEF Scored, ResultsTyped
  <2>3. ASSUME \/ \E q \in lti.running : Results!Fails(q)
               \/ \E l \in Students : Results!Gets(l)
               \/ Results!is_past_due
               \/ UNCHANGED lti
        PROVE  Scored'
    <3>1. /\ lti'.running \subseteq lti.running /\ lti'.block = lti.block
          /\ lti'.module_score = lti.module_score
      BY <1>2, <2>3 DEF Results!Fails, Results!Gets, Results!is_past_due, ResultsTyped
    <3> QED
      BY <1>2, <3>1 DEF Scored
  <2> QED
    BY <1>2, <2>1, <2>2, <2>3 DEF Results!Next
<1> QED
  BY <1>1, <1>2
--------------------------------------------------------------------------------
(***************************************************************************)
(* The gradebook and the block agree on a learner's score when no request  *)
(* is running, unless one failed in between or two of them overlapped; and *)
(* the comment a learner reads beside a score was given with it, however   *)
(* many requests overlap, fail or clear.                                   *)
(***************************************************************************)
THEOREM GradebookAlwaysAgrees == Spec => []GradebookAgrees
<1> DEFINE Inv == ResultsInv /\ Scored
<1>1. Init => Inv
  BY ResultsInductive, ScoredInductive DEF Init
<1>2. Inv /\ [Next]_vars => Inv'
  <2> SUFFICES ASSUME Inv, [Next]_vars
               PROVE  Inv'
    OBVIOUS
  <2>1. [Results!Next]_lti
    BY DEF Next, vars
  <2> QED
    BY <2>1, ResultsInductive, ScoredInductive DEF ResultsInv
<1>3. Inv => GradebookAgrees
  <2>1. MaybeScore = {Results!NoScore} \cup 0..5 * Results!Full
    BY DEF MaybeScore, Weighted, Results!NoScore, Results!Full
  <2>2. Scored => Results!TypeOK
    BY <2>1 DEF Scored, Results!TypeOK
  <2> QED
    BY <2>2 DEF ResultsInv, Commented, Copied, GradebookAgrees
<1> HIDE DEF Inv
<1> QED
  BY <1>1, <1>2, <1>3, PTL DEF Spec
--------------------------------------------------------------------------------
\* What the answer to a request looks like.
IsRequest(r) == DOMAIN r = {"start", "text", "verdict"} /\ r.start \in Int

FormulaTyped(s) ==
    /\ DOMAIN s = {"text", "edits", "lastSent", "clock", "isWaitingForRequest", "requestVisible",
                   "errorWaitTimeout", "loading", "throttled", "due", "requests", "shown", "failed"}
    /\ s.edits \in Int /\ s.clock \in Int /\ s.throttled \in Int /\ s.requestVisible \in Int
    /\ IsRequest(s.shown) /\ \A r \in s.requests \cup s.errorWaitTimeout : IsRequest(r)

(***************************************************************************)
(* What is shown is not newer than the last answer heard, an error that    *)
(* waits is that answer, and whatever is still to come was sent before now. *)
(***************************************************************************)
FormulaOrdered(s) ==
    /\ s.shown.start <= s.requestVisible /\ s.requestVisible < s.clock
    /\ \A r \in s.errorWaitTimeout : r.start = s.requestVisible
    /\ \A r \in s.requests : r.start < s.clock
FormulaGood(s) == FormulaTyped(s) /\ FormulaOrdered(s)
FormulaInv == FormulaGood(formula)
--------------------------------------------------------------------------------
\* An answer of a request that was sent keeps the order, and what is shown does not get older.
LEMMA UpdateKeeps ==
    ASSUME NEW s, FormulaGood(s), NEW response, IsRequest(response), response.start < s.clock
    PROVE  /\ FormulaGood(Formula!updatePage(s, response))
           /\ Formula!updatePage(s, response).shown.start >= s.shown.start
<1> DEFINE icon == IF response.start = s.lastSent /\ ~s.isWaitingForRequest
                   THEN [s EXCEPT !.loading = FALSE] ELSE s
           now == [icon EXCEPT !.requestVisible = response.start, !.errorWaitTimeout = {}]
<1>1. /\ FormulaGood(icon)
      /\ icon.shown = s.shown /\ icon.requestVisible = s.requestVisible /\ icon.clock = s.clock
  BY DEF FormulaGood, FormulaTyped, FormulaOrdered
<1>2. CASE response.start <= s.requestVisible
  <2>1. Formula!updatePage(s, response) = icon
    BY <1>2 DEF Formula!updatePage
  <2> HIDE DEF icon
  <2> QED
    BY <1>1, <2>1 DEF FormulaGood, FormulaTyped, FormulaOrdered, IsRequest
<1>3. CASE ~(response.start <= s.requestVisible)
  <2>1. Formula!updatePage(s, response) = IF response.verdict = "error"
            THEN [now EXCEPT !.loading = TRUE, !.errorWaitTimeout = {response}]
            ELSE Formula!display(now, response)
    BY <1>3 DEF Formula!updatePage
  <2> HIDE DEF icon
  <2>2. /\ FormulaTyped(now) /\ now.requestVisible = response.start /\ now.errorWaitTimeout = {}
        /\ now.shown = s.shown /\ now.clock = s.clock /\ now.requests = icon.requests
    BY <1>1 DEF FormulaGood, FormulaTyped, IsRequest
  <2>3. s.shown.start \in Int /\ s.requestVisible \in Int /\ response.start \in Int
        /\ s.shown.start <= s.requestVisible
    BY DEF FormulaGood, FormulaTyped, FormulaOrdered, IsRequest
  <2>4. \A r \in now.requests : r.start < now.clock
    BY <1>1, <2>2 DEF FormulaGood, FormulaOrdered
  <2> HIDE DEF now
  <2>5. CASE response.verdict = "error"
    BY <1>3, <2>1, <2>2, <2>3, <2>4, <2>5 DEF FormulaGood, FormulaTyped, FormulaOrdered, IsRequest
  <2>6. CASE response.verdict # "error"
    BY <1>3, <2>1, <2>2, <2>3, <2>4, <2>6
    DEF FormulaGood, FormulaTyped, FormulaOrdered, IsRequest, Formula!display
  <2> QED
    BY <2>5, <2>6
<1> QED
  BY <1>2, <1>3

\* So does what is asked when the time of the rate limit is up.
LEMMA SendKeeps ==
    ASSUME NEW s, FormulaGood(s)
    PROVE  FormulaGood(Formula!sendRequest(s)) /\ Formula!sendRequest(s).shown.start >= s.shown.start
<1> DEFINE r == Formula!Request(s.clock, s.throttled)
           now == [s EXCEPT !.lastSent = s.clock, !.clock = @ + 1, !.isWaitingForRequest = FALSE,
                            !.due = FALSE]
           answer == [r EXCEPT !.verdict = "preview"]
<1>1. IsRequest(r) /\ IsRequest(answer) /\ r.start = s.clock /\ answer.start = s.clock
  BY DEF Formula!Request, IsRequest, FormulaGood, FormulaTyped
<1>2. /\ FormulaGood(now) /\ now.clock = s.clock + 1 /\ now.shown = s.shown /\ s.clock \in Int
      /\ s.shown.start \in Int
  BY DEF FormulaGood, FormulaTyped, FormulaOrdered, IsRequest
<1>3. Formula!sendRequest(s) = IF s.throttled = 0 THEN Formula!updatePage(now, answer)
                       ELSE [now EXCEPT !.requests = @ \cup {r}]
  BY DEF Formula!sendRequest
<1> HIDE DEF r, now, answer
<1>4. CASE s.throttled = 0
  <2>1. answer.start < now.clock
    BY <1>1, <1>2
  <2> QED
    BY <1>1, <1>2, <1>3, <1>4, <2>1, UpdateKeeps
<1>5. CASE s.throttled # 0
  BY <1>1, <1>2, <1>3, <1>5 DEF FormulaGood, FormulaTyped, FormulaOrdered
<1> QED
  BY <1>4, <1>5
--------------------------------------------------------------------------------
\* Every step keeps the order and goes forward.
LEMMA FormulaKeeps ==
    ASSUME FormulaGood(formula), [Formula!Next]_formula
    PROVE  FormulaGood(formula') /\ formula'.shown.start >= formula.shown.start
<1>1. formula.shown.start \in Int
  BY DEF FormulaGood, FormulaTyped, IsRequest
<1>2. CASE Formula!Type
  <2>1. PICK text \in {0, formula.edits + 1} :
            formula' = Formula!initializeRequest([formula EXCEPT !.text = text, !.edits = @ + 1], text)
    BY <1>2 DEF Formula!Type
  <2> QED
    BY <1>1, <2>1 DEF Formula!initializeRequest, FormulaGood, FormulaTyped, FormulaOrdered
<1>3. CASE Formula!ThrottleEnds
  BY <1>3, SendKeeps DEF Formula!ThrottleEnds
<1>4. CASE Formula!Serve
  <2>1. PICK r \in formula.requests, verdict \in Formula!Verdicts :
            formula' = [formula EXCEPT
                          !.requests = (@ \ {r}) \cup {[r EXCEPT !.verdict = verdict]}]
    BY <1>4 DEF Formula!Serve
  <2>2. IsRequest(r) /\ r.start < formula.clock
    BY DEF FormulaGood, FormulaTyped, FormulaOrdered
  <2> DEFINE served == [r EXCEPT !.verdict = verdict]
  <2>3. IsRequest(served) /\ served.start = r.start
    BY <2>2 DEF IsRequest
  <2>4. formula' = [formula EXCEPT !.requests = (@ \ {r}) \cup {served}]
    BY <2>1
  <2> HIDE DEF served
  <2> QED
    BY <1>1, <2>2, <2>3, <2>4 DEF FormulaGood, FormulaTyped, FormulaOrdered
<1>5. CASE Formula!Arrives
  <2>1. PICK r \in formula.requests :
            formula' = Formula!updatePage([formula EXCEPT !.requests = @ \ {r}], r)
    BY <1>5 DEF Formula!Arrives
  <2> DEFINE rest == [formula EXCEPT !.requests = @ \ {r}]
  <2>2. FormulaGood(rest) /\ rest.shown = formula.shown /\ rest.clock = formula.clock
    BY DEF FormulaGood, FormulaTyped, FormulaOrdered
  <2>3. IsRequest(r) /\ r.start < rest.clock
    BY <2>2 DEF FormulaGood, FormulaTyped, FormulaOrdered
  <2>4. formula' = Formula!updatePage(rest, r)
    BY <2>1
  <2> HIDE DEF rest
  <2> QED
    BY <2>2, <2>3, <2>4, UpdateKeeps
<1>6. CASE Formula!Fails
  BY <1>1, <1>6 DEF Formula!Fails, FormulaGood, FormulaTyped, FormulaOrdered
<1>7. CASE Formula!ErrorDelayEnds
  BY <1>1, <1>7
  DEF Formula!ErrorDelayEnds, Formula!display, FormulaGood, FormulaTyped, FormulaOrdered, IsRequest
<1>8. CASE UNCHANGED formula
  BY <1>1, <1>8
<1> QED
  BY <1>2, <1>3, <1>4, <1>5, <1>6, <1>7, <1>8 DEF Formula!Next

\* The page opens with nothing shown yet.
LEMMA FormulaBegins == Formula!Init => FormulaGood(formula)
BY DEF Formula!Init, Formula!initializeRequest, Formula!Nothing,
       FormulaGood, FormulaTyped, FormulaOrdered, IsRequest

(***************************************************************************)
(* Whatever order the answers come in, and however many formulas are       *)
(* typed, the preview never goes back to an older one.                     *)
(***************************************************************************)
THEOREM PreviewNeverGoesBack == Spec => Formula!NeverBackwards
<1>1. Init => FormulaInv
  BY FormulaBegins DEF FormulaInv, Init
<1>2. ASSUME FormulaInv, [Next]_vars
      PROVE  FormulaInv' /\ [formula'.shown.start >= formula.shown.start]_formula
  <2>1. [Formula!Next]_formula
    BY <1>2 DEF Next, vars
  <2> QED
    BY <1>2, <2>1, FormulaKeeps DEF FormulaInv
<1> QED
  BY <1>1, <1>2, PTL DEF Spec, Formula!NeverBackwards
--------------------------------------------------------------------------------
(***************************************************************************)
(* What is known of the last formula that was typed: it is still to be     *)
(* sent, or it is on its way, or its error waits, or it is what is shown.  *)
(* An answer that has been heard does not come again.                      *)
(***************************************************************************)
OnItsWay(s) == \E r \in s.requests : r.start = s.lastSent /\ r.text = s.text
ErrorWaits(s) == s.requestVisible = s.lastSent /\ \E r \in s.errorWaitTimeout : r.text = s.text
IsShown(s) ==
    s.requestVisible = s.lastSent /\ s.errorWaitTimeout = {} /\ s.shown.text = s.text /\ s.loading = FALSE
FormulaCurrent(s) ==
    /\ s.due \in BOOLEAN /\ s.failed \in BOOLEAN
    /\ s.lastSent = s.clock - 1 /\ s.throttled = s.text /\ s.due = s.isWaitingForRequest
    /\ \A r \in s.requests : r.start # s.requestVisible
    /\ \A r, q \in s.requests : r.start = q.start => r = q
    /\ \A r, q \in s.errorWaitTimeout : r = q
    /\ s.due = FALSE /\ s.failed = FALSE => OnItsWay(s) \/ ErrorWaits(s) \/ IsShown(s)

\* A request that was sent, of which there is no other.
LEMMA UpdateIsCurrent ==
    ASSUME NEW s, FormulaGood(s), NEW response, IsRequest(response), response.start < s.clock,
           s.due \in BOOLEAN, s.failed \in BOOLEAN,
           s.lastSent = s.clock - 1, s.throttled = s.text, s.due = s.isWaitingForRequest,
           \A r \in s.requests : r.start # s.requestVisible /\ r.start # response.start,
           response.start # s.requestVisible,
           \A r, q \in s.requests : r.start = q.start => r = q,
           \A r, q \in s.errorWaitTimeout : r = q,
           s.due = FALSE /\ s.failed = FALSE =>
               OnItsWay(s) \/ ErrorWaits(s) \/ IsShown(s)
               \/ (response.start = s.lastSent /\ response.text = s.text)
    PROVE  FormulaCurrent(Formula!updatePage(s, response))
<1> DEFINE icon == IF response.start = s.lastSent /\ ~s.isWaitingForRequest
                   THEN [s EXCEPT !.loading = FALSE] ELSE s
           now == [icon EXCEPT !.requestVisible = response.start, !.errorWaitTimeout = {}]
           after == Formula!updatePage(s, response)
<1>0. /\ s.clock \in Int /\ s.requestVisible \in Int /\ response.start \in Int
      /\ s.lastSent = s.clock - 1 /\ s.requestVisible <= s.lastSent /\ response.start <= s.lastSent
  BY DEF FormulaGood, FormulaTyped, FormulaOrdered, IsRequest
<1>1. /\ icon.clock = s.clock /\ icon.lastSent = s.lastSent /\ icon.throttled = s.throttled
      /\ icon.text = s.text /\ icon.due = s.due /\ icon.isWaitingForRequest = s.isWaitingForRequest
      /\ icon.requests = s.requests /\ icon.errorWaitTimeout = s.errorWaitTimeout
      /\ icon.failed = s.failed /\ icon.requestVisible = s.requestVisible /\ icon.shown = s.shown
      /\ icon.loading = IF response.start = s.lastSent /\ ~s.isWaitingForRequest THEN FALSE ELSE s.loading
      /\ DOMAIN icon = DOMAIN s
  BY DEF FormulaGood, FormulaTyped
<1>2. CASE response.start <= s.requestVisible
  <2>1. after = icon
    BY <1>2 DEF Formula!updatePage
  <2>2. response.start < s.lastSent
    BY <1>0, <1>2
  <2> HIDE DEF icon, after
  <2>3. s.due = FALSE /\ s.failed = FALSE => OnItsWay(s) \/ ErrorWaits(s) \/ IsShown(s)
    BY <1>0, <2>2
  <2>4. ASSUME s.due = FALSE, s.failed = FALSE
        PROVE  OnItsWay(icon) \/ ErrorWaits(icon) \/ IsShown(icon)
    <3>1. icon.loading = FALSE \/ icon.loading = s.loading
      BY <1>1
    <3> QED
      BY <1>1, <2>3, <2>4, <3>1 DEF OnItsWay, ErrorWaits, IsShown
  <2> QED
    BY <1>1, <2>1, <2>4 DEF FormulaCurrent, after
<1>3. CASE ~(response.start <= s.requestVisible)
  <2>1. after = IF response.verdict = "error"
            THEN [now EXCEPT !.loading = TRUE, !.errorWaitTimeout = {response}]
            ELSE Formula!display(now, response)
    BY <1>3 DEF Formula!updatePage
  <2> HIDE DEF icon
  <2>2. /\ now.clock = s.clock /\ now.lastSent = s.lastSent /\ now.throttled = s.throttled
        /\ now.text = s.text /\ now.due = s.due /\ now.isWaitingForRequest = s.isWaitingForRequest
        /\ now.requests = s.requests /\ now.failed = s.failed /\ now.loading = icon.loading
        /\ now.requestVisible = response.start /\ now.errorWaitTimeout = {} /\ DOMAIN now = DOMAIN s
    BY <1>1 DEF FormulaGood, FormulaTyped
  <2> HIDE DEF now
  <2>3. /\ after.clock = s.clock /\ after.lastSent = s.lastSent /\ after.throttled = s.throttled
        /\ after.text = s.text /\ after.due = s.due /\ after.isWaitingForRequest = s.isWaitingForRequest
        /\ after.requests = s.requests /\ after.failed = s.failed
        /\ after.requestVisible = response.start
    BY <2>1, <2>2 DEF Formula!display, FormulaGood, FormulaTyped
  <2>4. \/ after.errorWaitTimeout = {response}
        \/ after.errorWaitTimeout = {} /\ after.shown = response /\ after.loading = icon.loading
    BY <2>1, <2>2 DEF Formula!display, FormulaGood, FormulaTyped
  <2>5. s.due = FALSE /\ s.failed = FALSE => OnItsWay(s) \/ (response.start = s.lastSent /\ response.text = s.text)
    BY <1>0, <1>3 DEF ErrorWaits, IsShown
  <2> HIDE DEF after
  <2>6. ASSUME s.due = FALSE, response.start = s.lastSent, response.text = s.text
        PROVE  ErrorWaits(after) \/ IsShown(after)
    <3>1. icon.loading = FALSE
      BY <1>1, <2>6
    <3> QED
      BY <2>3, <2>4, <2>6, <3>1 DEF ErrorWaits, IsShown
  <2>7. ASSUME s.due = FALSE, s.failed = FALSE
        PROVE  OnItsWay(after) \/ ErrorWaits(after) \/ IsShown(after)
    BY <2>3, <2>5, <2>6, <2>7 DEF OnItsWay
  <2>8. \A r, q \in after.errorWaitTimeout : r = q
    BY <2>4
  <2> QED
    BY <2>3, <2>7, <2>8 DEF FormulaCurrent, after
<1> QED
  BY <1>2, <1>3

LEMMA SendIsCurrent ==
    ASSUME NEW s, FormulaGood(s), FormulaCurrent(s)
    PROVE  FormulaCurrent(Formula!sendRequest(s))
<1> DEFINE r == Formula!Request(s.clock, s.throttled)
           now == [s EXCEPT !.lastSent = s.clock, !.clock = @ + 1, !.isWaitingForRequest = FALSE,
                            !.due = FALSE]
           answer == [r EXCEPT !.verdict = "preview"]
<1>1. /\ IsRequest(r) /\ IsRequest(answer) /\ r.start = s.clock /\ answer.start = s.clock
      /\ r.text = s.text /\ answer.text = s.text
  BY DEF Formula!Request, IsRequest, FormulaGood, FormulaTyped, FormulaCurrent
<1>2. /\ FormulaGood(now) /\ now.clock = s.clock + 1 /\ s.clock \in Int /\ now.lastSent = s.clock
      /\ now.requests = s.requests /\ now.errorWaitTimeout = s.errorWaitTimeout
      /\ now.text = s.text /\ now.throttled = s.throttled /\ now.requestVisible = s.requestVisible
      /\ now.due = FALSE /\ now.isWaitingForRequest = FALSE /\ now.failed = s.failed
      /\ DOMAIN now = DOMAIN s
  BY DEF FormulaGood, FormulaTyped, FormulaOrdered, IsRequest
<1>3. Formula!sendRequest(s) = IF s.throttled = 0 THEN Formula!updatePage(now, answer)
                       ELSE [now EXCEPT !.requests = @ \cup {r}]
  BY DEF Formula!sendRequest
<1>4. /\ \A q \in s.requests : q.start < s.clock /\ q.start # s.requestVisible
      /\ \A p, q \in s.requests : p.start = q.start => p = q
      /\ \A p, q \in s.errorWaitTimeout : p = q
      /\ s.requestVisible < s.clock /\ s.throttled = s.text
  BY DEF FormulaGood, FormulaOrdered, FormulaCurrent
<1> HIDE DEF r, now, answer
<1>5. CASE s.throttled = 0
  <2>1. answer.start < now.clock /\ now.lastSent = now.clock - 1
    BY <1>1, <1>2, <1>4
  <2>2. now.throttled = now.text
    BY <1>2, <1>4
  <2>3. /\ now.due = now.isWaitingForRequest /\ now.due \in BOOLEAN /\ now.failed \in BOOLEAN
    BY <1>2 DEF FormulaCurrent
  <2>4. /\ \A q \in now.requests : q.start # now.requestVisible /\ q.start # answer.start
        /\ answer.start # now.requestVisible
        /\ \A p, q \in now.requests : p.start = q.start => p = q
        /\ \A p, q \in now.errorWaitTimeout : p = q
        /\ answer.start = now.lastSent /\ answer.text = now.text
    BY <1>1, <1>2, <1>4
  <2>5. FormulaCurrent(Formula!updatePage(now, answer))
    BY <1>1, <1>2, <2>1, <2>2, <2>3, <2>4, UpdateIsCurrent
  <2> QED
    BY <1>3, <1>5, <2>5
<1>6. CASE s.throttled # 0
  <2> DEFINE after == [now EXCEPT !.requests = @ \cup {r}]
  <2>1. /\ after.clock = s.clock + 1 /\ after.lastSent = s.clock
        /\ after.requests = s.requests \cup {r} /\ after.errorWaitTimeout = s.errorWaitTimeout
        /\ after.text = s.text /\ after.throttled = s.throttled /\ after.requestVisible = s.requestVisible
        /\ after.due = FALSE /\ after.isWaitingForRequest = FALSE /\ after.failed = s.failed
    BY <1>2 DEF FormulaGood, FormulaTyped
  <2> HIDE DEF after
  <2>2. /\ after.due \in BOOLEAN /\ after.failed \in BOOLEAN /\ after.due = after.isWaitingForRequest
    BY <2>1 DEF FormulaCurrent
  <2>3. after.lastSent = after.clock - 1
    BY <1>2, <2>1
  <2>4. /\ \A q \in after.requests : q.start # after.requestVisible
        /\ \A p, q \in after.requests : p.start = q.start => p = q
    BY <1>1, <1>2, <1>4, <2>1 DEF FormulaGood, FormulaTyped, IsRequest
  <2>5. OnItsWay(after)
    BY <1>1, <2>1 DEF OnItsWay
  <2>6. FormulaCurrent(after)
    BY <1>4, <2>1, <2>2, <2>3, <2>4, <2>5 DEF FormulaCurrent
  <2> QED
    BY <1>3, <1>6, <2>6 DEF after
<1> QED
  BY <1>5, <1>6

\* The formula that was typed last is followed through every step.
LEMMA FormulaStaysCurrent ==
    ASSUME FormulaGood(formula), FormulaCurrent(formula), [Formula!Next]_formula
    PROVE  FormulaCurrent(formula')
<1>1. CASE Formula!Type
  <2>1. PICK text \in {0, formula.edits + 1} :
            formula' = Formula!initializeRequest([formula EXCEPT !.text = text, !.edits = @ + 1], text)
    BY <1>1 DEF Formula!Type
  <2>2. /\ formula'.due = TRUE /\ formula'.isWaitingForRequest = TRUE /\ formula'.throttled = formula'.text
        /\ formula'.failed = formula.failed /\ formula'.requests = formula.requests
        /\ formula'.errorWaitTimeout = formula.errorWaitTimeout /\ formula'.clock = formula.clock
        /\ formula'.lastSent = formula.lastSent /\ formula'.requestVisible = formula.requestVisible
    BY <2>1 DEF Formula!initializeRequest, FormulaGood, FormulaTyped
  <2> QED
    BY <2>2 DEF FormulaCurrent
<1>2. CASE Formula!ThrottleEnds
  BY <1>2, SendIsCurrent DEF Formula!ThrottleEnds
<1>3. CASE Formula!Serve
  <2>1. PICK r \in formula.requests, verdict \in Formula!Verdicts :
            formula' = [formula EXCEPT
                          !.requests = (@ \ {r}) \cup {[r EXCEPT !.verdict = verdict]}]
    BY <1>3 DEF Formula!Serve
  <2> DEFINE served == [r EXCEPT !.verdict = verdict]
  <2>2. served.start = r.start /\ served.text = r.text
    BY DEF FormulaGood, FormulaTyped, IsRequest
  <2>3. /\ formula'.due = formula.due /\ formula'.isWaitingForRequest = formula.isWaitingForRequest
        /\ formula'.throttled = formula.throttled /\ formula'.text = formula.text
        /\ formula'.failed = formula.failed /\ formula'.requests = (formula.requests \ {r}) \cup {served}
        /\ formula'.errorWaitTimeout = formula.errorWaitTimeout /\ formula'.clock = formula.clock
        /\ formula'.lastSent = formula.lastSent /\ formula'.requestVisible = formula.requestVisible
        /\ formula'.shown = formula.shown /\ formula'.loading = formula.loading
    BY <2>1 DEF FormulaGood, FormulaTyped
  <2> HIDE DEF served
  <2>4. /\ \A q \in formula'.requests : q.start # formula'.requestVisible
        /\ \A p, q \in formula'.requests : p.start = q.start => p = q
    BY <2>2, <2>3 DEF FormulaCurrent
  <2>5. OnItsWay(formula) => OnItsWay(formula')
    BY <2>2, <2>3 DEF OnItsWay
  <2>6. ErrorWaits(formula) => ErrorWaits(formula')
    BY <2>3 DEF ErrorWaits
  <2>7. IsShown(formula) => IsShown(formula')
    BY <2>3 DEF IsShown
  <2> QED
    BY <2>3, <2>4, <2>5, <2>6, <2>7 DEF FormulaCurrent
<1>4. CASE Formula!Arrives
  <2>1. PICK r \in formula.requests :
            formula' = Formula!updatePage([formula EXCEPT !.requests = @ \ {r}], r)
    BY <1>4 DEF Formula!Arrives
  <2> DEFINE rest == [formula EXCEPT !.requests = @ \ {r}]
  <2>2. FormulaGood(rest)
    BY DEF FormulaGood, FormulaTyped, FormulaOrdered
  <2>3. /\ rest.due = formula.due /\ rest.isWaitingForRequest = formula.isWaitingForRequest
        /\ rest.throttled = formula.throttled /\ rest.text = formula.text
        /\ rest.failed = formula.failed /\ rest.requests = formula.requests \ {r}
        /\ rest.errorWaitTimeout = formula.errorWaitTimeout /\ rest.clock = formula.clock
        /\ rest.lastSent = formula.lastSent /\ rest.requestVisible = formula.requestVisible
        /\ rest.shown = formula.shown /\ rest.loading = formula.loading
    BY DEF FormulaGood, FormulaTyped
  <2>4. formula' = Formula!updatePage(rest, r)
    BY <2>1
  <2> HIDE DEF rest
  <2>5. IsRequest(r) /\ r.start < rest.clock
    BY <2>3 DEF FormulaGood, FormulaTyped, FormulaOrdered
  <2>6. /\ rest.lastSent = rest.clock - 1 /\ rest.throttled = rest.text
        /\ \A q \in rest.requests : q.start # rest.requestVisible /\ q.start # r.start
        /\ r.start # rest.requestVisible
        /\ \A p, q \in rest.requests : p.start = q.start => p = q
        /\ \A p, q \in rest.errorWaitTimeout : p = q
    BY <2>3 DEF FormulaCurrent
  <2>7. rest.due = rest.isWaitingForRequest /\ rest.due \in BOOLEAN /\ rest.failed \in BOOLEAN
    BY <2>3 DEF FormulaCurrent
  <2>8. OnItsWay(formula) => OnItsWay(rest) \/ (r.start = rest.lastSent /\ r.text = rest.text)
    BY <2>3 DEF OnItsWay
  <2>9. (ErrorWaits(formula) => ErrorWaits(rest)) /\ (IsShown(formula) => IsShown(rest))
    BY <2>3 DEF ErrorWaits, IsShown
  <2>10. rest.due = FALSE /\ rest.failed = FALSE
             => OnItsWay(rest) \/ ErrorWaits(rest) \/ IsShown(rest)
                \/ (r.start = rest.lastSent /\ r.text = rest.text)
    BY <2>3, <2>8, <2>9 DEF FormulaCurrent
  <2>11. FormulaCurrent(Formula!updatePage(rest, r))
    BY <2>2, <2>5, <2>6, <2>7, <2>10, UpdateIsCurrent
  <2> QED
    BY <2>4, <2>11
<1>5. CASE Formula!Fails
  <2>1. /\ formula'.due = formula.due /\ formula'.isWaitingForRequest = formula.isWaitingForRequest
        /\ formula'.throttled = formula.throttled /\ formula'.text = formula.text
        /\ formula'.failed = TRUE /\ formula'.requests \subseteq formula.requests
        /\ formula'.errorWaitTimeout = formula.errorWaitTimeout /\ formula'.clock = formula.clock
        /\ formula'.lastSent = formula.lastSent /\ formula'.requestVisible = formula.requestVisible
    BY <1>5 DEF Formula!Fails, FormulaGood, FormulaTyped
  <2> QED
    BY <2>1 DEF FormulaCurrent
<1>6. CASE Formula!ErrorDelayEnds
  <2>1. PICK r \in formula.errorWaitTimeout :
            formula' = [Formula!display(formula, r) EXCEPT !.loading = FALSE, !.errorWaitTimeout = @ \ {r}]
    BY <1>6 DEF Formula!ErrorDelayEnds
  <2>2. /\ formula'.due = formula.due /\ formula'.isWaitingForRequest = formula.isWaitingForRequest
        /\ formula'.throttled = formula.throttled /\ formula'.text = formula.text
        /\ formula'.failed = formula.failed /\ formula'.requests = formula.requests
        /\ formula'.errorWaitTimeout = formula.errorWaitTimeout \ {r} /\ formula'.clock = formula.clock
        /\ formula'.lastSent = formula.lastSent /\ formula'.requestVisible = formula.requestVisible
        /\ formula'.shown = r /\ formula'.loading = FALSE
    BY <2>1 DEF Formula!display, FormulaGood, FormulaTyped
  <2>3. formula'.errorWaitTimeout = {}
    BY <2>2 DEF FormulaCurrent
  <2>4. OnItsWay(formula) => OnItsWay(formula')
    BY <2>2 DEF OnItsWay
  <2>5. ErrorWaits(formula) => IsShown(formula')
    BY <2>2, <2>3 DEF ErrorWaits, IsShown, FormulaCurrent
  <2>6. ~IsShown(formula)
    BY DEF IsShown
  <2> QED
    BY <2>2, <2>3, <2>4, <2>5, <2>6 DEF FormulaCurrent
<1>7. CASE UNCHANGED formula
  BY <1>7
<1> QED
  BY <1>1, <1>2, <1>3, <1>4, <1>5, <1>6, <1>7 DEF Formula!Next

LEMMA FormulaBeginsCurrent == Formula!Init => FormulaCurrent(formula)
<1> SUFFICES ASSUME Formula!Init
             PROVE  FormulaCurrent(formula)
  OBVIOUS
<1>1. /\ formula.due = TRUE /\ formula.isWaitingForRequest = TRUE /\ formula.failed = FALSE
      /\ formula.throttled = formula.text /\ formula.requests = {} /\ formula.errorWaitTimeout = {}
      /\ formula.lastSent = 0 /\ formula.clock = 1
  BY DEF Formula!Init, Formula!initializeRequest
<1>2. formula.lastSent = formula.clock - 1
  BY <1>1
<1> QED
  BY <1>1, <1>2 DEF FormulaCurrent

LEMMA CurrentIsQuiet ==
    ASSUME FormulaGood(formula), FormulaCurrent(formula)
    PROVE  Formula!TypeOK /\ Formula!QuietIsCurrent
<1>1. formula.lastSent < formula.clock /\ formula.requestVisible <= formula.lastSent
  BY DEF FormulaGood, FormulaTyped, FormulaOrdered, FormulaCurrent
<1>2. Cardinality(formula.errorWaitTimeout) <= 1
  <2>1. CASE formula.errorWaitTimeout = {}
    BY <2>1, FS_EmptySet
  <2>2. CASE formula.errorWaitTimeout # {}
    <3>1. PICK r \in formula.errorWaitTimeout : formula.errorWaitTimeout = {r}
      BY <2>2 DEF FormulaCurrent
    <3>2. Cardinality({r}) = 1
      BY FS_Singleton
    <3> QED
      BY <3>1, <3>2
  <2> QED
    BY <2>1, <2>2
<1>3. ASSUME Formula!Quiet, ~formula.failed
      PROVE  formula.shown.text = formula.text /\ ~formula.loading
  <2>1. formula.due = FALSE /\ formula.failed = FALSE
    BY <1>3 DEF Formula!Quiet, FormulaCurrent
  <2>2. IsShown(formula)
    BY <1>3, <2>1 DEF Formula!Quiet, FormulaCurrent, OnItsWay, ErrorWaits
  <2> QED
    BY <2>2 DEF IsShown
<1>4. Formula!Cardinality(formula.errorWaitTimeout) = Cardinality(formula.errorWaitTimeout)
  BY DEF Formula!Cardinality, Cardinality
<1>5. Formula!TypeOK
  BY <1>1, <1>2, <1>4 DEF Formula!TypeOK
<1> QED
  BY <1>3, <1>5 DEF Formula!QuietIsCurrent
--------------------------------------------------------------------------------
Pages == UNION {[1 .. n -> Widgets!Sources] : n \in 0 .. 3}
First(p) == {i \in DOMAIN p : Widgets!Loads(p, i)}
Done(p, loading) == [i \in DOMAIN p |-> i \notin loading]
Ran(p, loading) == {p[i] : i \in First(p) \ loading}

(***************************************************************************)
(* A placeholder is done unless its script is loading, the scripts that    *)
(* ran are those of the placeholders that were the first to ask and are    *)
(* done, and the callback is called when none is loading any more.         *)
(***************************************************************************)
ScriptsGood(s) ==
    /\ DOMAIN s = {"placeholders", "completed", "callbackCalled", "called", "loading", "ran"}
    /\ s.placeholders \in Pages /\ s.loading \subseteq First(s.placeholders)
    /\ s.completed = Done(s.placeholders, s.loading)
    /\ s.called = IF s.loading = {} THEN 1 ELSE 0
    /\ s.loading # {} => s.callbackCalled = FALSE
    /\ s.ran = Ran(s.placeholders, s.loading)

\* The links agree with the class, in a language where they begin with what they say later.
OutputGood(s) ==
    /\ DOMAIN s = {"translated", "text", "longform", "open"}
    /\ s.open \in BOOLEAN /\ DOMAIN s.text = {"top", "bottom"}
    /\ ~s.translated => \A link \in {"top", "bottom"} :
          s.text[link] = IF s.open THEN "close_text" ELSE "open_text"

\* What would be sent has the tag that is selected; and the comment, unless that is being written.
AnnotationGood(s) ==
    /\ DOMAIN s = {"value", "selected", "textarea", "changed"} /\ s.changed \in BOOLEAN
    /\ \/ s.value = <<>> /\ s.selected = {} /\ (s.changed = FALSE => s.textarea = "")
       \/ \E comment : /\ s.value = <<[options |-> s.selected, comment |-> comment]>>
                       /\ s.changed = FALSE => comment = s.textarea
WidgetsGood ==
    /\ DOMAIN widgets = {"scripts", "output", "annotation"}
    /\ ScriptsGood(widgets.scripts) /\ OutputGood(widgets.output) /\ AnnotationGood(widgets.annotation)

\* Of the placeholders that ask for a safe script there is a first.
LEMMA FirstAsks ==
    ASSUME NEW p \in Pages
    PROVE  {p[i] : i \in First(p)} = {p[i] : i \in DOMAIN p} \ {"unsafe"}
<1>1. PICK n \in 0 .. 3 : p \in [1 .. n -> Widgets!Sources]
  BY DEF Pages
<1>2. ASSUME NEW i \in 1 .. n, p[i] # "unsafe"
      PROVE  \E j \in 1 .. n : p[j] = p[i] /\ \A k \in 1 .. j - 1 : p[k] # p[j]
  <2>1. i \in {1, 2, 3}
    BY <1>1
  <2>2. CASE p[1] = p[i]
    BY <1>1, <2>2
  <2>3. CASE p[1] # p[i] /\ p[2] = p[i]
    BY <1>1, <2>1, <2>3
  <2>4. CASE p[1] # p[i] /\ p[2] # p[i]
    BY <1>1, <2>1, <2>4
  <2> QED
    BY <2>2, <2>3, <2>4
<1> QED
  BY <1>1, <1>2 DEF First, Widgets!Loads

LEMMA ScriptDone ==
    ASSUME NEW s, ScriptsGood(s), NEW i \in s.loading, NEW d,
           d = Widgets!completionHandler([s EXCEPT !.loading = @ \ {i},
                                                   !.ran = @ \cup {s.placeholders[i]}], i)
    PROVE  ScriptsGood(d)
<1> DEFINE done == [s EXCEPT !.loading = @ \ {i}, !.ran = @ \cup {s.placeholders[i]}]
           now == [done EXCEPT !.completed[i] = TRUE]
<1>1. /\ now.placeholders = s.placeholders /\ now.loading = s.loading \ {i}
      /\ now.completed = [s.completed EXCEPT ![i] = TRUE] /\ now.called = 0
      /\ now.callbackCalled = FALSE /\ now.ran = s.ran \cup {s.placeholders[i]}
      /\ DOMAIN now = DOMAIN s /\ done.callbackCalled = FALSE
  BY DEF ScriptsGood
<1>2. now.completed = Done(s.placeholders, now.loading)
  BY <1>1 DEF ScriptsGood, Done
<1>3. i \in First(s.placeholders) /\ now.loading \subseteq First(s.placeholders)
  BY <1>1 DEF ScriptsGood
<1>4. now.ran = Ran(s.placeholders, now.loading)
  BY <1>1, <1>3 DEF ScriptsGood, Ran
<1>5. (\A j \in DOMAIN now.completed : now.completed[j]) <=> now.loading = {}
  BY <1>2, <1>3 DEF First, Done
<1>6. d = IF (\A j \in DOMAIN now.completed : now.completed[j]) /\ ~done.callbackCalled
          THEN [now EXCEPT !.callbackCalled = TRUE, !.called = @ + 1] ELSE now
  BY DEF Widgets!completionHandler
<1> HIDE DEF now, done
<1>7. CASE now.loading = {}
  <2>1. d = [now EXCEPT !.callbackCalled = TRUE, !.called = @ + 1]
    BY <1>1, <1>5, <1>6, <1>7
  <2>2. /\ d.placeholders = now.placeholders /\ d.loading = now.loading /\ d.completed = now.completed
        /\ d.called = now.called + 1 /\ d.ran = now.ran /\ DOMAIN d = DOMAIN now
    BY <1>1, <2>1 DEF ScriptsGood
  <2>3. d.called = 1
    BY <1>1, <2>2
  <2>4. d.placeholders \in Pages /\ d.loading \subseteq First(d.placeholders) /\ d.ran = Ran(d.placeholders, d.loading)
    BY <1>1, <1>3, <1>4, <2>2 DEF ScriptsGood
  <2> QED
    BY <1>1, <1>2, <1>7, <2>2, <2>3, <2>4 DEF ScriptsGood
<1>8. CASE now.loading # {}
  <2>1. d = now
    BY <1>5, <1>6, <1>8
  <2> QED
    BY <1>1, <1>2, <1>3, <1>4, <1>8, <2>1 DEF ScriptsGood
<1> QED
  BY <1>7, <1>8

LEMMA WidgetsBegin == Widgets!Init => WidgetsGood
<1> SUFFICES ASSUME Widgets!Init
             PROVE  WidgetsGood
  OBVIOUS
<1>1. PICK p \in Pages, translated \in BOOLEAN :
          widgets = [scripts |-> Widgets!executeModuleScripts(p), output |-> Widgets!setCollapsibles(translated),
                     annotation |-> [value |-> <<>>, selected |-> {}, textarea |-> "", changed |-> FALSE]]
  BY DEF Widgets!Init, Pages
<1>2. ScriptsGood(Widgets!executeModuleScripts(p))
  <2> DEFINE s == Widgets!executeModuleScripts(p)
  <2>1. s = [placeholders |-> p, completed |-> Done(p, First(p)),
             callbackCalled |-> p # <<>> /\ First(p) = {},
             called |-> IF First(p) = {} THEN 1 ELSE 0, loading |-> First(p), ran |-> {}]
    BY DEF Widgets!executeModuleScripts, Done, First
  <2>2. Ran(p, First(p)) = {}
    BY DEF Ran
  <2> HIDE DEF s
  <2>3. /\ s.placeholders = p /\ s.completed = Done(p, First(p)) /\ s.loading = First(p) /\ s.ran = {}
        /\ s.called = IF First(p) = {} THEN 1 ELSE 0
        /\ DOMAIN s = {"placeholders", "completed", "callbackCalled", "called", "loading", "ran"}
    BY <2>1
  <2>4. First(p) # {} => s.callbackCalled = FALSE
    BY <2>1
  <2>5. ScriptsGood(s)
    BY <2>2, <2>3, <2>4 DEF ScriptsGood
  <2> QED
    BY <2>5 DEF s
<1>3. OutputGood(Widgets!setCollapsibles(translated))
  BY DEF Widgets!setCollapsibles, OutputGood
<1>4. AnnotationGood([value |-> <<>>, selected |-> {}, textarea |-> "", changed |-> FALSE])
  BY DEF AnnotationGood
<1> QED
  BY <1>1, <1>2, <1>3, <1>4 DEF WidgetsGood

LEMMA ValueLoaded ==
    ASSUME NEW a, AnnotationGood(a)
    PROVE  LET v == Widgets!loadValue(a)[1]
           IN  /\ v = [options |-> a.selected, comment |-> v.comment]
               /\ a.changed = FALSE => v.comment = a.textarea
<1>1. CASE a.value = <<>>
  <2>0. \A c : <<[options |-> a.selected, comment |-> c]>> # <<>>
    OBVIOUS
  <2>1. a.selected = {} /\ (a.changed = FALSE => a.textarea = "")
    BY <1>1, <2>0 DEF AnnotationGood
  <2> DEFINE v == Widgets!loadValue(a)[1]
  <2>2. v = [options |-> {}, comment |-> ""]
    BY <1>1 DEF Widgets!loadValue
  <2> HIDE DEF v
  <2>3. v.comment = ""
    BY <2>2
  <2>4. v = [options |-> a.selected, comment |-> v.comment]
    BY <2>1, <2>2, <2>3
  <2> QED
    BY <2>1, <2>3, <2>4 DEF v
<1>2. CASE a.value # <<>>
  <2>1. PICK comment : /\ a.value = <<[options |-> a.selected, comment |-> comment]>>
                       /\ a.changed = FALSE => comment = a.textarea
    BY <1>2 DEF AnnotationGood
  <2>2. Widgets!loadValue(a) = a.value
    BY <1>2 DEF Widgets!loadValue
  <2> QED
    BY <2>1, <2>2
<1> QED
  BY <1>1, <1>2

\* What is loaded, unfolded, written or chosen leaves the three parts in order.
LEMMA WidgetsKeep ==
    ASSUME WidgetsGood, [Widgets!Next]_widgets
    PROVE  WidgetsGood'
<1>1. CASE Widgets!ScriptLoads
  <2> DEFINE s == widgets.scripts
  <2>1. PICK i \in s.loading :
            widgets' = [widgets EXCEPT !.scripts = Widgets!completionHandler(
                [s EXCEPT !.loading = @ \ {i}, !.ran = @ \cup {s.placeholders[i]}], i)]
    BY <1>1 DEF Widgets!ScriptLoads
  <2> HIDE DEF s
  <2>2. /\ widgets'.scripts = Widgets!completionHandler(
                [s EXCEPT !.loading = @ \ {i}, !.ran = @ \cup {s.placeholders[i]}], i)
        /\ widgets'.output = widgets.output /\ widgets'.annotation = widgets.annotation
        /\ DOMAIN widgets' = DOMAIN widgets
    BY <2>1 DEF WidgetsGood
  <2>3. ScriptsGood(widgets'.scripts)
    BY <2>2, ScriptDone DEF WidgetsGood, s
  <2> QED
    BY <2>2, <2>3 DEF WidgetsGood
<1>2. CASE Widgets!ToggleFull
  <2>1. PICK link \in {"top", "bottom"} :
            widgets' = [widgets EXCEPT !.output = Widgets!toggleFull(@, link)]
    BY <1>2 DEF Widgets!ToggleFull
  <2> DEFINE s == widgets.output
             d == Widgets!toggleFull(s, link)
             new_text == IF s.text[link] = "open_text" THEN "close_text" ELSE "open_text"
  <2>2. /\ widgets'.scripts = widgets.scripts /\ widgets'.output = d
        /\ widgets'.annotation = widgets.annotation /\ DOMAIN widgets' = DOMAIN widgets
    BY <2>1 DEF WidgetsGood
  <2>3. /\ DOMAIN d = DOMAIN s /\ d.translated = s.translated /\ d.open = ~s.open
        /\ d.text = [l \in {"top", "bottom"} |-> new_text]
    BY DEF Widgets!toggleFull, WidgetsGood, OutputGood
  <2>4. ~s.translated => new_text = IF s.open THEN "open_text" ELSE "close_text"
    BY DEF WidgetsGood, OutputGood
  <2> HIDE DEF d, new_text
  <2>5. ~s.translated => \A l \in {"top", "bottom"} :
            d.text[l] = IF d.open THEN "close_text" ELSE "open_text"
    <3>1. CASE s.open
      BY <2>3, <2>4, <3>1
    <3>2. CASE ~s.open
      BY <2>3, <2>4, <3>2
    <3> QED
      BY <3>1, <3>2
  <2>6. OutputGood(d)
    BY <2>3, <2>5 DEF WidgetsGood, OutputGood
  <2> QED
    BY <2>2, <2>6 DEF WidgetsGood
<1>3. CASE Widgets!WriteComment
  <2>1. PICK comment \in Comments :
            widgets' = [widgets EXCEPT !.annotation.textarea = comment, !.annotation.changed = TRUE]
    BY <1>3 DEF Widgets!WriteComment
  <2>2. /\ widgets'.scripts = widgets.scripts /\ widgets'.output = widgets.output
        /\ widgets'.annotation = [widgets.annotation EXCEPT !.textarea = comment, !.changed = TRUE]
        /\ DOMAIN widgets' = DOMAIN widgets
    BY <2>1 DEF WidgetsGood
  <2>3. AnnotationGood([widgets.annotation EXCEPT !.textarea = comment, !.changed = TRUE])
    BY DEF WidgetsGood, AnnotationGood
  <2> QED
    BY <2>2, <2>3 DEF WidgetsGood
<1>4. CASE Widgets!ChangeComment
  <2> DEFINE a == widgets.annotation
             d == [Widgets!onChangeComment(a) EXCEPT !.changed = FALSE]
  <2>1. widgets' = [widgets EXCEPT !.annotation = d]
    BY <1>4 DEF Widgets!ChangeComment
  <2>2. d.value = <<[Widgets!loadValue(a)[1] EXCEPT !.comment = a.textarea]>>
        /\ d.selected = a.selected /\ d.textarea = a.textarea /\ d.changed = FALSE /\ DOMAIN d = DOMAIN a
    BY DEF Widgets!onChangeComment, WidgetsGood, AnnotationGood
  <2>3. d.value = <<[options |-> a.selected, comment |-> a.textarea]>>
    <3> DEFINE v == Widgets!loadValue(a)[1]
    <3>1. v = [options |-> a.selected, comment |-> v.comment]
      BY ValueLoaded DEF WidgetsGood
    <3> HIDE DEF v
    <3>2. [v EXCEPT !.comment = a.textarea] = [options |-> a.selected, comment |-> a.textarea]
      BY <3>1
    <3> QED
      BY <2>2, <3>2 DEF v
  <2> HIDE DEF d
  <2>4. AnnotationGood(d)
    BY <2>2, <2>3 DEF WidgetsGood, AnnotationGood
  <2> QED
    BY <2>1, <2>4 DEF WidgetsGood
<1>5. CASE Widgets!ClickTag
  <2> DEFINE a == widgets.annotation
  <2>1. PICK tag \in Tags : widgets' = [widgets EXCEPT !.annotation = Widgets!onClickTag(@, tag)]
    BY <1>5 DEF Widgets!ClickTag
  <2> DEFINE d == Widgets!onClickTag(a, tag)
             selected == IF tag \notin a.selected THEN {tag} ELSE {}
  <2>2. /\ d.value = <<[Widgets!loadValue(a)[1] EXCEPT !.options = selected]>>
        /\ d.selected = selected /\ d.textarea = a.textarea /\ d.changed = a.changed /\ DOMAIN d = DOMAIN a
    BY DEF Widgets!onClickTag, WidgetsGood, AnnotationGood
  <2>3. a.changed = FALSE
    BY <1>5 DEF Widgets!ClickTag, WidgetsGood, AnnotationGood
  <2> HIDE DEF selected
  <2>4. d.value = <<[options |-> selected, comment |-> a.textarea]>>
    <3> DEFINE v == Widgets!loadValue(a)[1]
    <3>1. v = [options |-> a.selected, comment |-> v.comment] /\ v.comment = a.textarea
      BY <2>3, ValueLoaded DEF WidgetsGood
    <3> HIDE DEF v
    <3>2. [v EXCEPT !.options = selected] = [options |-> selected, comment |-> a.textarea]
      BY <3>1
    <3> QED
      BY <2>2, <3>2 DEF v
  <2>5. widgets' = [widgets EXCEPT !.annotation = d]
    BY <2>1
  <2> HIDE DEF d
  <2>6. AnnotationGood(d)
    BY <2>2, <2>3, <2>4 DEF WidgetsGood, AnnotationGood
  <2> QED
    BY <2>5, <2>6 DEF WidgetsGood
<1>6. CASE UNCHANGED widgets
  BY <1>6 DEF WidgetsGood
<1> QED
  BY <1>1, <1>2, <1>3, <1>4, <1>5, <1>6 DEF Widgets!Next

LEMMA WidgetsTell ==
    ASSUME WidgetsGood
    PROVE  Widgets!TypeOK /\ Widgets!BoundWhenLoaded /\ Widgets!LinksTell /\ Widgets!AnnotationIsSent
<1>1. Widgets!TypeOK
  BY DEF Widgets!TypeOK, WidgetsGood, ScriptsGood, Done
<1>2. Widgets!BoundWhenLoaded
  <2> DEFINE s == widgets.scripts
  <2>1. s.called \in {0, 1} /\ (s.called = 1 <=> s.loading = {})
    BY DEF WidgetsGood, ScriptsGood
  <2>2. ASSUME s.loading = {}
        PROVE  Widgets!ToSet(s.placeholders) \ {"unsafe"} = s.ran
    <3>1. s.ran = {s.placeholders[i] : i \in First(s.placeholders)}
      BY <2>2 DEF WidgetsGood, ScriptsGood, Ran
    <3>2. Widgets!ToSet(s.placeholders) = {s.placeholders[i] : i \in DOMAIN s.placeholders}
      BY DEF Widgets!ToSet
    <3> QED
      BY <3>1, <3>2, FirstAsks DEF WidgetsGood, ScriptsGood
  <2>3. s.called <= 1
    BY <2>1
  <2> QED
    BY <2>1, <2>2, <2>3 DEF Widgets!BoundWhenLoaded
<1>3. Widgets!LinksTell
  BY DEF Widgets!LinksTell, WidgetsGood, OutputGood
<1>4. Widgets!AnnotationIsSent
  <2> DEFINE a == widgets.annotation
  <2> SUFFICES ASSUME a.value # <<>>, ~a.changed
               PROVE  a.value[1].options = a.selected /\ a.value[1].comment = a.textarea
    BY DEF Widgets!AnnotationIsSent
  <2>1. PICK comment : /\ a.value = <<[options |-> a.selected, comment |-> comment]>>
                       /\ a.changed = FALSE => comment = a.textarea
    BY DEF WidgetsGood, AnnotationGood
  <2>2. a.changed = FALSE
    BY DEF WidgetsGood, AnnotationGood
  <2> QED
    BY <2>1, <2>2
<1> QED
  BY <1>1, <1>2, <1>3, <1>4
--------------------------------------------------------------------------------
(***************************************************************************)
(* When nothing is on its way the preview is of what was typed last, in    *)
(* whatever order the answers came; a problem is bound once, when its      *)
(* scripts have run; links say what a click does; and an annotation is     *)
(* sent with the tag and the comment that are shown.                       *)
(***************************************************************************)
THEOREM ShownIsAlwaysCurrent == Spec => []ShownIsCurrent
<1> DEFINE Inv == FormulaGood(formula) /\ FormulaCurrent(formula) /\ WidgetsGood
<1>1. Init => Inv
  BY FormulaBegins, FormulaBeginsCurrent, WidgetsBegin DEF Init
<1>2. ASSUME Inv, [Next]_vars
      PROVE  Inv'
  <2>1. [Formula!Next]_formula /\ [Widgets!Next]_widgets
    BY <1>2 DEF Next, vars
  <2> QED
    BY <1>2, <2>1, FormulaKeeps, FormulaStaysCurrent, WidgetsKeep
<1>3. Inv => ShownIsCurrent
  BY CurrentIsQuiet, WidgetsTell DEF ShownIsCurrent
<1> HIDE DEF Inv
<1> QED
  BY <1>1, <1>2, <1>3, PTL DEF Spec
--------------------------------------------------------------------------------
\* The frame's own copy of the channel's operations does the same.
LEMMA SameSides ==
    /\ \A w : Frame!Channel!Other(w) = Channel!Other(w)
    /\ \A kind, id, arg : Frame!Channel!Message(kind, id, arg) = Channel!Message(kind, id, arg)
    /\ \A type : Frame!Channel!Ready(type) = Channel!Ready(type)
    /\ \A f : Frame!Channel!Window(f) = Channel!Window(f)
    /\ Frame!Channel!Quiet = Channel!Quiet
    /\ \A q : Frame!Channel!Reverse(q) = Channel!Reverse(q)
BY DEF Frame!Channel!Other, Channel!Other, Frame!Channel!Message, Channel!Message,
       Frame!Channel!Ready, Channel!Ready, Frame!Channel!Window, Channel!Window, Frame!Channel!Quiet, Channel!Quiet,
       Frame!Channel!Reverse, Channel!Reverse

\* Building and posting.
LEMMA SamePosts ==
    ASSUME NEW s, NEW w, NEW m
    PROVE  /\ Frame!Channel!build(s, w) = Channel!build(s, w)
           /\ Frame!Channel!transmit(s, w, m) = Channel!transmit(s, w, m)
           /\ Frame!Channel!postMessage(s, w, m) = Channel!postMessage(s, w, m)
           /\ Frame!Channel!flush(s, w) = Channel!flush(s, w)
BY SameSides DEF Frame!Channel!build, Channel!build, Frame!Channel!transmit, Channel!transmit,
       Frame!Channel!postMessage, Channel!postMessage, Frame!Channel!flush, Channel!flush

\* The handshake, calls and their ends.
LEMMA SameEnds ==
    ASSUME NEW s, NEW w, NEW m, NEW id, NEW how, NEW type, NEW method, NEW timed
    PROVE  /\ Frame!Channel!onReady(s, w, type) = Channel!onReady(s, w, type)
           /\ Frame!Channel!call(s, w, method, timed) = Channel!call(s, w, method, timed)
           /\ Frame!Channel!ended(s, w, id, how) = Channel!ended(s, w, id, how)
           /\ Frame!Channel!complete(s, w, id, how) = Channel!complete(s, w, id, how)
BY SameSides, SamePosts DEF Frame!Channel!onReady, Channel!onReady, Frame!Channel!call, Channel!call,
       Frame!Channel!ended, Channel!ended, Frame!Channel!complete, Channel!complete

\* What is done with a message.
LEMMA SameMessages ==
    ASSUME NEW s, NEW w, NEW m, NEW does
    PROVE  Frame!Channel!s_onMessage(s, w, m, does) = Channel!s_onMessage(s, w, m, does)
<1>1. \A id : Frame!Channel!serve(s, w, id, does) = Channel!serve(s, w, id, does)
  BY SameEnds DEF Frame!Channel!serve, Channel!serve
<1>2. Frame!Channel!onMessage(s, w, m, does) = Channel!onMessage(s, w, m, does)
  BY <1>1, SameEnds DEF Frame!Channel!onMessage, Channel!onMessage
<1> QED
  BY <1>2 DEF Frame!Channel!s_onMessage, Channel!s_onMessage
--------------------------------------------------------------------------------
\* What is called in a frame, by which click, and what is sent to be graded.
Methods == {"setState", "getGrade", "getState"}
Clicks == [made : Int, ordered : BOOLEAN]
Asks == [id : Int, method : Methods, click : Clicks, answer : Int]
Submissions == [input : Int \X Int, click : Clicks]

\* The requests that put the saved state back, those of a call, and what x has sent.
SetStates == {m \in Messages : m.kind = "request" /\ m.arg = "setState"}
RequestsWith(id) == {m \in Messages : m.kind = "request" /\ m.id = id}
Travels(x, q) == In(x.pendingQueue) \cup In(q)
LastWaits(s) == Frame!Last(s.inputs) = "js"
Graded(A) == {r \in A : r.method # "setState"}

\* The parts of a problem and its frame.
FrameTyped(s) ==
    /\ DOMAIN s = {"sop", "saves", "inputs", "ch", "loaded", "made", "restored", "tries", "asked",
                   "input", "sent", "clicks", "failed", "worked"}
    /\ Wired(s.ch)
    /\ {s.sop, s.saves, s.loaded, s.restored} \subseteq BOOLEAN
    /\ {s.made, s.tries, s.clicks, s.worked} \subseteq Int
    /\ s.asked \subseteq Asks /\ IsFiniteSet(s.asked)
    /\ s.input \in Int \X Int /\ s.sent \in Seq(Submissions)

\* What is on its way was asked for.
Known(x, y, q, p, A) ==
    /\ y.pendingQueue = <<>> /\ x.s_curTranId >= 1
    /\ \A r \in A : r.id \in x.outTbl /\ r.id >= 1
    /\ \A r, u \in A : r.id = u.id \/ (r.method = "setState" /\ u.method = "setState") => r = u
    /\ \A m \in Travels(x, q) : IF m.kind = "request" THEN \E r \in A : r.id = m.id /\ r.method = m.arg
                                ELSE m.kind = "ready"
    /\ \A m \in In(p) : IF m.kind = "answer" THEN m.arg \in Int /\ \E r \in A : r.id = m.id
                        ELSE m.kind = "ready"

\* How far the saved state is.
Restores(s, y) ==
    /\ s.tries \in 0 .. MaxTries
    /\ s.tries > 0 => s.sop = TRUE /\ s.saves = TRUE /\ s.restored = FALSE
    /\ s.restored = FALSE => s.saves = TRUE
    /\ s.restored = TRUE /\ s.saves = TRUE => s.made >= 1
    /\ s.made >= 0 /\ s.worked >= 0 /\ s.made <= s.worked + 1
    /\ s.loaded = FALSE => y.bound = FALSE
    /\ s.sop = TRUE => s.asked = {}

\* What a request is answered with is no older than the click it was made for.
Waits(r, x, q, p, restored, saves, made) ==
    /\ r.method = "getGrade" =>
          /\ r.click.made <= made /\ (restored = FALSE => r.click.made = 0)
          /\ In(x.pendingQueue) \cap RequestsWith(r.id) # {} => restored = TRUE
          /\ In(q) \cap RequestsWith(r.id) # {} /\ restored = FALSE => Before(q, SetStates, RequestsWith(r.id))
    /\ r.method = "getState" =>
          saves = TRUE /\ restored = TRUE /\ r.click.made <= r.answer /\ r.answer <= made /\ r.answer >= 1
    /\ \A m \in In(p) : m.kind = "answer" /\ m.id = r.id /\ m.arg # -1 /\ r.method # "setState" =>
          /\ restored = TRUE /\ m.arg <= made
          /\ r.method = "getGrade" => r.click.made <= m.arg /\ (saves = TRUE => m.arg >= 1)
          /\ r.method = "getState" => r.answer <= m.arg

\* Every click sends once: now, or when what it asked for is answered.
Counted(s) == LastWaits(s) => Len(s.sent) + Cardinality(Graded(s.asked)) <= s.clicks
\* What was sent is no older than its click, and of a frame that had its saved state.
SentGood(s) ==
    LastWaits(s) => \A i \in DOMAIN s.sent :
        LET x == s.sent[i]
        IN  x.click.ordered = TRUE =>
              /\ x.click.made <= x.input[1] /\ x.input[1] <= x.input[2]
              /\ s.sop = TRUE => x.input[1] = x.input[2]
              /\ s.saves = TRUE => x.input[1] >= 1

\* Over a channel, the saved state is on its way until it is back, and not afterwards.
Restorable(s) ==
    LET T == Travels(s.ch.page, s.ch.to.frame) \cap SetStates
    IN  /\ s.sop = FALSE /\ s.restored = FALSE => T # {}
Restored(s) == s.restored = TRUE => Travels(s.ch.page, s.ch.to.frame) \cap SetStates = {}

\* What is between the page and the frame, and what is asked for.
Between(c) ==
    /\ Flows(c.page, c.frame, c.to.page, c.to.frame)
    /\ EndsOf(c.page, c.log.page) /\ EndsOf(c.frame, c.log.frame)
Told(s) ==
    /\ Known(s.ch.page, s.ch.frame, s.ch.to.frame, s.ch.to.page, s.asked)
    /\ \A r \in s.asked : r.click.ordered = TRUE =>
          Waits(r, s.ch.page, s.ch.to.frame, s.ch.to.page, s.restored, s.saves, s.made)
(***************************************************************************)
(* The invariant of a problem and its frame.  It is almost good between    *)
(* the moment its input is made and the call that restores it.             *)
(***************************************************************************)
AlmostGood(s) ==
    /\ FrameTyped(s) /\ Between(s.ch) /\ Told(s) /\ Restores(s, s.ch.frame) /\ Restored(s)
    /\ Counted(s) /\ SentGood(s)
FrameGood(s) == AlmostGood(s) /\ Restorable(s)
--------------------------------------------------------------------------------
\* The invariant implies what the run checks of the frame and its problem.
LEMMA GoodTells ==
    ASSUME FrameGood(js)
    PROVE  Frame!TypeOK /\ Frame!SentIsEntered /\ Frame!SentIsRestored /\ Frame!OneClickOneSubmission
<1>1. /\ FrameTyped(js) /\ Between(js.ch) /\ Told(js) /\ Restores(js, js.ch.frame) /\ Restored(js)
      /\ Counted(js) /\ SentGood(js)
  BY DEF FrameGood, AlmostGood
<1>2. Frame!TypeOK
  <2>1. js.tries \in 0 .. MaxTries
    BY <1>1 DEF Restores
  <2>2. ASSUME NEW r \in js.asked
        PROVE  r.id \in js.ch.page.outTbl /\ r.id < js.ch.page.s_curTranId
    BY <1>1 DEF Told, Known, Between, EndsOf
  <2> QED
    BY <2>1, <2>2 DEF Frame!TypeOK
<1>3. ASSUME NEW i \in DOMAIN js.sent, js.sent[i].click.ordered
      PROVE  js.sent[i].click.ordered = TRUE
  BY <1>1, <1>3 DEF FrameTyped, Submissions, Clicks
<1>4. Frame!SentIsEntered
  BY <1>1, <1>3 DEF Frame!SentIsEntered, Frame!LastWaits, SentGood, LastWaits
<1>5. Frame!SentIsRestored
  BY <1>1, <1>3 DEF Frame!SentIsRestored, Frame!LastWaits, SentGood, LastWaits
<1>6. Frame!OneClickOneSubmission
  <2>1. Cardinality(Graded(js.asked)) \in Nat
    BY <1>1, FS_Subset, FS_CardinalityType DEF Graded, FrameTyped
  <2>2. Len(js.sent) \in Nat /\ js.clicks \in Int
    BY <1>1 DEF FrameTyped
  <2> QED
    BY <1>1, <2>1, <2>2 DEF Frame!OneClickOneSubmission, Frame!LastWaits, Counted, LastWaits
<1> QED
  BY <1>2, <1>4, <1>5, <1>6
--------------------------------------------------------------------------------
\* What the channel has when requests only come nearer, and answers are not added.
Nearer(c, d) ==
    /\ d.frame.pendingQueue = <<>> /\ d.page.s_curTranId = c.page.s_curTranId /\ d.page.outTbl = c.page.outTbl
    /\ In(d.page.pendingQueue) \subseteq In(c.page.pendingQueue)
    /\ \A m \in Travels(d.page, d.to.frame) : m \in Travels(c.page, c.to.frame) \/ m.kind = "ready"
    /\ \A m \in Travels(c.page, c.to.frame) : m \in Travels(d.page, d.to.frame) \/ m.kind = "ready"
    /\ \A m \in In(d.to.page) : m \in In(c.to.page) \/ m.kind = "ready"
    /\ \A id : Before(c.to.frame, SetStates, RequestsWith(id)) => Before(d.to.frame, SetStates, RequestsWith(id))

\* Only the channel changes, and what is on its way comes nearer: the invariant stays.
LEMMA ChannelOnly ==
    ASSUME NEW s, FrameGood(s), NEW c, Wired(c), Between(c), Nearer(s.ch, c),
           s.loaded = FALSE => c.frame.bound = FALSE
    PROVE  FrameGood([s EXCEPT !.ch = c])
<1> DEFINE t == [s EXCEPT !.ch = c]
<1>1. /\ FrameTyped(s) /\ Told(s) /\ Restores(s, s.ch.frame) /\ Restored(s)
      /\ Counted(s) /\ SentGood(s) /\ Restorable(s)
  BY DEF FrameGood, AlmostGood
<1>2. /\ DOMAIN t = DOMAIN s /\ t.ch = c /\ t.sop = s.sop /\ t.saves = s.saves /\ t.inputs = s.inputs
      /\ t.loaded = s.loaded /\ t.made = s.made /\ t.restored = s.restored /\ t.tries = s.tries
      /\ t.asked = s.asked /\ t.input = s.input /\ t.sent = s.sent /\ t.clicks = s.clicks /\ t.worked = s.worked
  BY <1>1 DEF FrameTyped
<1> HIDE DEF t
<1>3. FrameTyped(t)
  BY <1>1, <1>2 DEF FrameTyped
<1>4. Restores(t, t.ch.frame) /\ Counted(t) /\ SentGood(t)
  <2>1. Restores(t, t.ch.frame)
    BY <1>1, <1>2 DEF Restores
  <2>2. Counted(t)
    BY <1>1, <1>2 DEF Counted, LastWaits
  <2>3. SentGood(t)
    BY <1>1, <1>2 DEF SentGood, LastWaits
  <2> QED
    BY <2>1, <2>2, <2>3
<1>5. Restored(t) /\ Restorable(t)
  <2>1. Travels(c.page, c.to.frame) \cap SetStates = Travels(s.ch.page, s.ch.to.frame) \cap SetStates
    BY DEF Nearer, SetStates
  <2> QED
    BY <1>1, <1>2, <2>1 DEF Restored, Restorable
<1>6. Known(c.page, c.frame, c.to.frame, c.to.page, s.asked)
  <2>0. Known(s.ch.page, s.ch.frame, s.ch.to.frame, s.ch.to.page, s.asked)
    BY <1>1 DEF Told
  <2>1. \A m \in Travels(c.page, c.to.frame) :
          IF m.kind = "request" THEN \E r \in s.asked : r.id = m.id /\ r.method = m.arg ELSE m.kind = "ready"
    BY <2>0 DEF Known, Nearer
  <2>2. \A m \in In(c.to.page) :
          IF m.kind = "answer" THEN m.arg \in Int /\ \E r \in s.asked : r.id = m.id ELSE m.kind = "ready"
    BY <2>0 DEF Known, Nearer
  <2> QED
    BY <2>0, <2>1, <2>2 DEF Known, Nearer
<1>7. ASSUME NEW r \in s.asked, r.click.ordered = TRUE
      PROVE  Waits(r, c.page, c.to.frame, c.to.page, s.restored, s.saves, s.made)
  <2>1. Waits(r, s.ch.page, s.ch.to.frame, s.ch.to.page, s.restored, s.saves, s.made)
    BY <1>1, <1>7 DEF Told
  <2> DEFINE R == RequestsWith(r.id)
  <2>2. ASSUME r.method = "getGrade"
        PROVE  /\ In(c.page.pendingQueue) \cap R # {} => s.restored = TRUE
               /\ In(c.to.frame) \cap R # {} /\ s.restored = FALSE => Before(c.to.frame, SetStates, R)
    <3>1. In(c.page.pendingQueue) \cap R # {} => s.restored = TRUE
      BY <2>1, <2>2 DEF Nearer, Waits
    <3>2. In(c.to.frame) \cap R # {} => In(s.ch.to.frame) \cap R # {} \/ In(s.ch.page.pendingQueue) \cap R # {}
      BY DEF Nearer, Travels, RequestsWith
    <3>3. In(c.to.frame) \cap R # {} /\ s.restored = FALSE => Before(c.to.frame, SetStates, R)
      BY <2>1, <2>2, <3>2 DEF Nearer, Waits
    <3> QED
      BY <3>1, <3>3
  <2>3. \A m \in In(c.to.page) : m.kind = "answer" => m \in In(s.ch.to.page)
    BY DEF Nearer
  <2> QED
    BY <2>1, <2>2, <2>3 DEF Waits
<1>8. Told(t)
  BY <1>2, <1>6, <1>7 DEF Told
<1> QED
  BY <1>2, <1>3, <1>4, <1>5, <1>8 DEF FrameGood, AlmostGood, t

\* A side of the channel changes: what is between the two stays so.
LEMMA BetweenSides ==
    ASSUME NEW c, Wired(c), Between(c), NEW w \in Sides
    PROVE  LET o == Channel!Other(w)
           IN  /\ Flows(c[w], c[o], c.to[w], c.to[o]) /\ EndsOf(c[w], c.log[w]) /\ EndsOf(c[o], c.log[o])
<1>1. \A x, y, p, q : Flows(x, y, p, q) => Flows(y, x, q, p)
  BY DEF Flows
<1> QED
  BY <1>1 DEF Between, Sides, Channel!Sides, Channel!Other

\* A step of one side of the channel.
LEMMA BetweenChanged ==
    ASSUME NEW c, Wired(c), Between(c), NEW w \in Sides, NEW x \in Windows, NEW p \in Queues, NEW q \in Queues,
           NEW l \in Logs, EndsOf(x, l), Flows(x, c[Channel!Other(w)], p, q)
    PROVE  LET d == Changed(c, w, x, p, q, l)
               o == Channel!Other(w)
           IN  /\ Wired(d) /\ Between(d) /\ DOMAIN d = DOMAIN c
               /\ d[w] = x /\ d.to[w] = p /\ d.to[o] = q /\ d.log[w] = l /\ d[o] = c[o] /\ d.log[o] = c.log[o]
<1> DEFINE d == Changed(c, w, x, p, q, l)
           o == Channel!Other(w)
<1>1. /\ Wired(d) /\ DOMAIN d = DOMAIN c
      /\ d[w] = x /\ d.to[w] = p /\ d.to[o] = q /\ d.log[w] = l /\ d[o] = c[o] /\ d.log[o] = c.log[o]
  BY Changes DEF Beside
<1>2. EndsOf(d[o], d.log[o]) /\ EndsOf(d[w], d.log[w]) /\ Flows(d[w], d[o], d.to[w], d.to[o])
  BY <1>1, BetweenSides
<1> HIDE DEF d
<1>3. Between(d)
  <2>1. \A y, z, u, v : Flows(y, z, u, v) => Flows(z, y, v, u)
    BY DEF Flows
  <2> QED
    BY <1>2, <2>1 DEF Between, Sides, Channel!Sides, Channel!Other
<1> QED
  BY <1>1, <1>3 DEF d
--------------------------------------------------------------------------------
\* What comes before something else still does when the window opened.
LEMMA OpenBefore ==
    ASSUME NEW x \in Windows, NEW q \in Queues, NEW type, NEW A, NEW B, Before(q, A, B)
    PROVE  Before(Open(x, q, type), A, B)
<1> DEFINE r == IF type = "ping" THEN Append(q, Channel!Ready("pong")) ELSE q
<1>1. r \in Queues /\ Before(r, A, B)
  <2>1. Channel!Ready("pong") \in Messages
    BY ReadyIsMessage
  <2> QED
    BY <2>1, Appended, AppendedBefore
<1>2. x.pendingQueue \in Queues
  BY DEF Windows
<1> HIDE DEF r
<1>3. Before(r \o Channel!Reverse(x.pendingQueue), A, B)
  BY <1>1, <1>2, FlushedBefore
<1> QED
  BY <1>3 DEF Open, r

\* A message is taken that is no request, or an answer that nobody hears.
LEMMA DropIsNearer ==
    ASSUME NEW c, Wired(c), NEW w \in Sides, c.to[w] # <<>>, c.frame.pendingQueue = <<>>,
           w = "frame" => Head(c.to[w]).kind = "ready",
           NEW d, d.page = c.page, d.frame = c.frame, d.to[w] = Tail(c.to[w]),
           d.to[Channel!Other(w)] = c.to[Channel!Other(w)]
    PROVE  Nearer(c, d)
<1> DEFINE p == c.to[w]
<1>1. p \in Queues /\ In(p) = In(Tail(p)) \cup {Head(p)}
  <2>1. p \in Queues
    BY Parts
  <2> QED
    BY <2>1, Taken
<1>2. CASE w = "page"
  <2>1. d.to.page = Tail(p) /\ d.to.frame = c.to.frame /\ p = c.to.page
    BY <1>2 DEF Channel!Other
  <2> HIDE DEF p
  <2> QED
    BY <1>1, <2>1 DEF Nearer
<1>3. CASE w = "frame"
  <2>1. d.to.frame = Tail(p) /\ d.to.page = c.to.page /\ p = c.to.frame /\ Head(p).kind = "ready"
    BY <1>3 DEF Channel!Other
  <2>2. Head(p) \notin SetStates
    BY <2>1 DEF SetStates
  <2>3. \A id : Before(p, SetStates, RequestsWith(id)) => Before(Tail(p), SetStates, RequestsWith(id))
    BY <1>1, <1>3, <2>2, TakenBefore
  <2> HIDE DEF p
  <2>4. \A m : m \in Travels(c.page, c.to.frame) <=> m \in Travels(d.page, d.to.frame) \/ m = Head(p)
    BY <1>1, <2>1 DEF Travels
  <2> QED
    BY <2>1, <2>3, <2>4 DEF Nearer
<1> QED
  BY <1>2, <1>3 DEF Sides, Channel!Sides

\* A window opens: what it kept is on its way.
LEMMA OpenIsNearer ==
    ASSUME NEW c, Wired(c), NEW w \in Sides, c.to[w] # <<>>, c.frame.pendingQueue = <<>>, Head(c.to[w]).kind = "ready",
           NEW type, NEW d, d[w] = Opened(c[w]), d[Channel!Other(w)] = c[Channel!Other(w)], d.to[w] = Tail(c.to[w]),
           d.to[Channel!Other(w)] = Open(c[w], c.to[Channel!Other(w)], type)
    PROVE  Nearer(c, d)
<1> DEFINE p == c.to[w]
           x == c[w]
           q == c.to[Channel!Other(w)]
           v == Opened(x)
           e == Open(x, q, type)
<1>1. /\ p \in Queues /\ q \in Queues /\ x \in Windows
      /\ In(p) = In(Tail(p)) \cup {Head(p)} /\ Head(p) \notin SetStates
  <2>1. p \in Queues /\ q \in Queues /\ x \in Windows
    BY Parts
  <2> QED
    BY <2>1, Taken DEF SetStates
<1>2. v.pendingQueue = <<>> /\ v.s_curTranId = x.s_curTranId /\ v.outTbl = x.outTbl
  BY <1>1 DEF Opened, Windows
<1>3. /\ \A m \in In(e) : m.kind # "ready" => m \in In(q) \cup In(x.pendingQueue)
      /\ In(q) \cup In(x.pendingQueue) \subseteq In(e)
  BY <1>1, OpenIs
<1>4. In(<<>>) = {}
  BY NothingIn
<1>5. CASE w = "page"
  <2>1. /\ d.page = v /\ d.frame = c.frame /\ d.to.page = Tail(p) /\ d.to.frame = e
        /\ p = c.to.page /\ q = c.to.frame /\ x = c.page
    BY <1>5 DEF Channel!Other
  <2>2. \A id : Before(q, SetStates, RequestsWith(id)) => Before(e, SetStates, RequestsWith(id))
    BY <1>1, OpenBefore
  <2> HIDE DEF p, q, x, v, e
  <2>3. Travels(c.page, c.to.frame) = In(x.pendingQueue) \cup In(q) /\ Travels(d.page, d.to.frame) = In(e)
    BY <1>2, <1>4, <2>1 DEF Travels
  <2> QED
    BY <1>1, <1>2, <1>3, <1>4, <2>1, <2>2, <2>3 DEF Nearer
<1>6. CASE w = "frame"
  <2>1. /\ d.frame = v /\ d.page = c.page /\ d.to.frame = Tail(p) /\ d.to.page = e
        /\ p = c.to.frame /\ q = c.to.page /\ x = c.frame /\ Head(p).kind = "ready"
    BY <1>6 DEF Channel!Other
  <2>2. \A id : Before(p, SetStates, RequestsWith(id)) => Before(Tail(p), SetStates, RequestsWith(id))
    BY <1>1, <1>6, TakenBefore
  <2> HIDE DEF p, q, x, v, e
  <2>3. \A m : m \in Travels(c.page, c.to.frame) <=> m \in Travels(d.page, d.to.frame) \/ m = Head(p)
    BY <1>1, <2>1 DEF Travels
  <2>4. \A m \in In(e) : m.kind # "ready" => m \in In(q)
    BY <1>3, <1>4, <2>1
  <2> QED
    BY <1>2, <2>1, <2>2, <2>3, <2>4 DEF Nearer
<1> QED
  BY <1>5, <1>6 DEF Sides, Channel!Sides

\* A message of the handshake arrives, at either side.
LEMMA HandshakeKeeps ==
    ASSUME NEW s, FrameGood(s), NEW w \in Sides, s.ch.to[w] # <<>>, Head(s.ch.to[w]).kind = "ready",
           NEW c, c = Frame!Channel!s_onMessage([s.ch EXCEPT !.to[w] = Tail(@)], w, Head(s.ch.to[w]), "returns")
    PROVE  FrameGood([s EXCEPT !.ch = c])
<1> DEFINE o == Channel!Other(w)
           b == s.ch
           m == Head(b.to[w])
           x == b[w]
           y == b[o]
           p == b.to[w]
           q == b.to[o]
           l == b.log[w]
<1>1. /\ Wired(b) /\ Between(b) /\ b.frame.pendingQueue = <<>> /\ (s.loaded = FALSE => b.frame.bound = FALSE)
  BY DEF FrameGood, AlmostGood, FrameTyped, Told, Known, Restores
<1>2. /\ x \in Windows /\ y \in Windows /\ p \in Queues /\ q \in Queues /\ l \in Logs
  BY <1>1, Parts
<1>3. Flows(x, y, p, q) /\ EndsOf(x, l)
  BY <1>1, BetweenSides
<1>4. Dropped(b, c, w, m) \/ IsOpened(b, c, w, m)
  <2>1. c = Channel!s_onMessage([b EXCEPT !.to[w] = Tail(@)], w, m, "returns") /\ "returns" \in Channel!Handles
    BY SameMessages DEF Channel!Handles
  <2>2. \/ Dropped(b, c, w, m) \/ IsOpened(b, c, w, m) \/ IsTaken(b, c, w, m)
        \/ IsServed(b, c, w, m) \/ IsHeard(b, c, w, m) \/ IsEnded(b, c, w, m)
    BY <1>1, <2>1, Delivers
  <2> QED
    BY <2>2 DEF IsTaken, IsServed, IsHeard, IsEnded
<1>5. Tail(p) \in Queues /\ w \in {"page", "frame"}
  BY <1>2, Taken DEF Sides, Channel!Sides
<1>6. CASE Dropped(b, c, w, m)
  <2>1. c = Changed(b, w, x, Tail(p), q, l) /\ (m.kind = "ready" => x.bound = FALSE \/ x.registered = FALSE)
    BY <1>6 DEF Dropped
  <2>2. Flows(x, y, Tail(p), q)
    <3>1. p # <<>> /\ (x.ready = FALSE /\ Head(p).kind = "ready" => x.bound = FALSE \/ x.registered = FALSE)
      BY <2>1
    <3> HIDE DEF x, y, p, q, l
    <3> QED
      BY <1>2, <1>3, <3>1, FlowsTake
  <2>3. /\ Wired(c) /\ Between(c) /\ c[w] = x /\ c[o] = y /\ c.to[w] = Tail(p) /\ c.to[o] = q
    BY <1>1, <1>2, <1>3, <1>5, <2>1, <2>2, BetweenChanged
  <2>4. c.page = b.page /\ c.frame = b.frame
    BY <1>5, <2>3 DEF Channel!Other
  <2>5. Nearer(b, c)
    BY <1>1, <2>3, <2>4, DropIsNearer
  <2> QED
    BY <1>1, <2>3, <2>4, <2>5, ChannelOnly
<1>7. CASE IsOpened(b, c, w, m)
  <2> DEFINE u == Opened(x)
             d == Open(x, q, m.arg)
  <2>1. c = Changed(b, w, u, Tail(p), d, l) /\ x.bound = TRUE
    BY <1>7 DEF IsOpened
  <2>2. Flows(u, y, Tail(p), d)
    BY <1>2, <1>3, <2>1, FlowsOpen
  <2>3. u \in Windows /\ d \in Queues
    BY <1>2, OpenTypes
  <2>4. /\ u.outTbl = x.outTbl /\ u.s_transIds = x.s_transIds /\ u.s_curTranId = x.s_curTranId
        /\ u.registered = FALSE /\ u.pendingQueue = <<>>
    BY <1>2 DEF Opened, Windows
  <2>9. u.bound = x.bound
    BY <1>2 DEF Opened, Windows
  <2>5. EndsOf(u, l)
    <3> HIDE DEF u, x, l
    <3> QED
      BY <1>3, <2>4, EndsKept
  <2>6. /\ Wired(c) /\ Between(c) /\ c[w] = u /\ c[o] = y /\ c.to[w] = Tail(p) /\ c.to[o] = d
    <3> HIDE DEF u, d
    <3> QED
      BY <1>1, <1>2, <1>5, <2>1, <2>2, <2>3, <2>5, BetweenChanged
  <2>7. Nearer(b, c)
    BY <1>1, <2>6, OpenIsNearer
  <2>8. s.loaded = FALSE => c.frame.bound = FALSE
    BY <1>1, <1>5, <2>6, <2>9 DEF Channel!Other
  <2> QED
    BY <1>1, <2>6, <2>7, <2>8, ChannelOnly
<1> QED
  BY <1>4, <1>6, <1>7
--------------------------------------------------------------------------------
\* A ping is sent.
LEMMA PingIsGood ==
    ASSUME FrameGood(js), NEW w \in Sides, Frame!Ping(w)
    PROVE  FrameGood(js')
<1> DEFINE o == Channel!Other(w)
           b == js.ch
           x == b[w]
           y == b[o]
           p == b.to[w]
           q == b.to[o]
           l == b.log[w]
           u == [x EXCEPT !.pinged = TRUE]
           e == [b EXCEPT ![w].pinged = TRUE]
           m == Channel!Ready("ping")
           d == Append(q, m)
           c == Channel!transmit(e, w, m)
<1>1. /\ Wired(b) /\ Between(b) /\ b.frame.pendingQueue = <<>> /\ (js.loaded = FALSE => b.frame.bound = FALSE)
  BY DEF FrameGood, AlmostGood, FrameTyped, Told, Known, Restores
<1>2. /\ x \in Windows /\ y \in Windows /\ p \in Queues /\ q \in Queues /\ l \in Logs /\ w \in DOMAIN b
  BY <1>1, Parts
<1>3. Flows(x, y, p, q) /\ EndsOf(x, l)
  BY <1>1, BetweenSides
<1>4. x.bound = TRUE /\ js' = [js EXCEPT !.ch = c]
  <2>1. x.bound = TRUE
    BY <1>2 DEF Frame!Ping, Windows
  <2>2. js' = [js EXCEPT !.ch = Frame!Channel!transmit([@ EXCEPT ![w].pinged = TRUE], w, Frame!Channel!Ready("ping"))]
    BY DEF Frame!Ping
  <2>3. Frame!Channel!transmit(e, w, Frame!Channel!Ready("ping")) = c
    BY SameSides, SamePosts
  <2> QED
    BY <2>1, <2>2, <2>3
<1>5. u \in Windows /\ u.ready = x.ready /\ u.registered = x.registered /\ u.pendingQueue = x.pendingQueue
      /\ u.outTbl = x.outTbl /\ u.s_transIds = x.s_transIds /\ u.s_curTranId = x.s_curTranId
  BY <1>2 DEF Windows
<1>6. u.bound = x.bound
  BY <1>2 DEF Windows
<1>7. e = [b EXCEPT ![w] = u]
  BY <1>2 DEF Windows
<1>8. d \in Queues /\ m \in Messages /\ m.kind = "ready"
  BY <1>2, ReadyIsMessage, Appended
<1>9. Flows(u, y, p, d)
  BY <1>2, <1>3, <1>4, FlowsPing
<1> HIDE DEF u, e, m
<1>10. EndsOf(u, l)
  BY <1>3, <1>5, EndsKept DEF EndsOf
<1>11. c = Changed(b, w, u, p, d, l)
  <2>1. e = Changed(b, w, u, p, q, l)
    BY <1>1, <1>7, WindowChanges
  <2>2. Wired(e) /\ e[w] = u /\ e.to[w] = p /\ e.to[o] = q /\ e.log[w] = l
    BY <1>1, <1>2, <1>5, <2>1, Changes
  <2>3. c = Changed(e, w, u, p, d, l)
    BY <2>2, Transmits
  <2> QED
    BY <1>1, <2>1, <2>3, ChangedTwice
<1> HIDE DEF c
<1>12. /\ Wired(c) /\ Between(c) /\ c[w] = u /\ c[o] = y /\ c.to[w] = p /\ c.to[o] = d
  <2> HIDE DEF d
  <2> QED
    BY <1>1, <1>2, <1>5, <1>8, <1>9, <1>10, <1>11, BetweenChanged
<1>13. w \in {"page", "frame"}
  BY DEF Sides, Channel!Sides
<1>14. In(d) = In(q) \cup {m} /\ \A A, B : Before(q, A, B) => Before(d, A, B)
  BY <1>2, <1>8, Appended, AppendedBefore
<1> HIDE DEF d
<1>15. Nearer(b, c)
  <2>1. CASE w = "page"
    <3>1. c.page = u /\ c.frame = b.frame /\ c.to.page = b.to.page /\ c.to.frame = d /\ x = b.page /\ q = b.to.frame
      BY <1>12, <2>1 DEF Channel!Other
    <3> HIDE DEF x, q
    <3> QED
      BY <1>1, <1>5, <1>8, <1>14, <3>1 DEF Nearer, Travels
  <2>2. CASE w = "frame"
    <3>1. c.frame = u /\ c.page = b.page /\ c.to.frame = b.to.frame /\ c.to.page = d /\ x = b.frame /\ q = b.to.page
      BY <1>12, <2>2 DEF Channel!Other
    <3> HIDE DEF x, q
    <3> QED
      BY <1>1, <1>5, <1>8, <1>14, <3>1 DEF Nearer, Travels
  <2> QED
    BY <1>13, <2>1, <2>2
<1>16. js.loaded = FALSE => c.frame.bound = FALSE
  BY <1>1, <1>6, <1>12, <1>13 DEF Channel!Other
<1> QED
  BY <1>1, <1>4, <1>12, <1>15, <1>16, ChannelOnly

\* What the channel and who waits say nothing about.
LEMMA Aside ==
    ASSUME NEW s, FrameGood(s), NEW t, DOMAIN t = DOMAIN s, t.ch = s.ch, t.asked = s.asked,
           t.sop = s.sop, t.saves = s.saves, t.inputs = s.inputs, t.restored = s.restored,
           t.input = s.input, t.sent = s.sent, t.loaded \in BOOLEAN,
           t.made \in Int, t.tries \in Int, t.clicks \in Int, t.worked \in Int,
           t.made >= s.made, LastWaits(s) => t.clicks >= s.clicks, Restores(t, t.ch.frame)
    PROVE  FrameGood(t)
<1>1. /\ FrameTyped(s) /\ Told(s) /\ Between(s.ch) /\ Restored(s)
      /\ Counted(s) /\ SentGood(s) /\ Restorable(s)
  BY DEF FrameGood, AlmostGood
<1>2. FrameTyped(t)
  BY <1>1 DEF FrameTyped
<1>3. Counted(t)
  <2>1. Len(s.sent) \in Nat /\ Cardinality(Graded(s.asked)) \in Nat /\ s.clicks \in Int
    BY <1>1, FS_Subset, FS_CardinalityType DEF FrameTyped, Graded
  <2> QED
    BY <1>1, <2>1 DEF Counted, LastWaits
<1>4. SentGood(t) /\ Restored(t) /\ Restorable(t)
  BY <1>1 DEF SentGood, LastWaits, Restored, Restorable
<1>5. ASSUME NEW r \in s.asked, r.click.ordered = TRUE
      PROVE  Waits(r, s.ch.page, s.ch.to.frame, s.ch.to.page, s.restored, s.saves, t.made)
  <2>1. Waits(r, s.ch.page, s.ch.to.frame, s.ch.to.page, s.restored, s.saves, s.made)
    BY <1>1, <1>5 DEF Told
  <2>2. s.made \in Int /\ r.click.made \in Int /\ r.answer \in Int
    BY <1>1 DEF FrameTyped, Asks, Clicks
  <2>3. \A m \in In(s.ch.to.page) : m.kind = "answer" => m.arg \in Int
    BY <1>1 DEF Told, Known
  <2> QED
    BY <2>1, <2>2, <2>3 DEF Waits
<1>6. Told(t)
  BY <1>1, <1>5 DEF Told
<1> QED
  BY <1>1, <1>2, <1>3, <1>4, <1>6 DEF FrameGood, AlmostGood

\* The parts of the invariant.
LEMMA Fields ==
    ASSUME NEW s, FrameGood(s)
    PROVE  /\ FrameTyped(s) /\ Restores(s, s.ch.frame) /\ Wired(s.ch) /\ Between(s.ch) /\ Told(s) /\ Restored(s)
           /\ Counted(s) /\ SentGood(s) /\ Restorable(s)
           /\ s.sop \in BOOLEAN /\ s.saves \in BOOLEAN /\ s.loaded \in BOOLEAN /\ s.restored \in BOOLEAN
           /\ s.made \in Int /\ s.tries \in Int /\ s.clicks \in Int /\ s.worked \in Int
           /\ s.asked \subseteq Asks /\ IsFiniteSet(s.asked)
BY DEF FrameGood, AlmostGood, FrameTyped

\* The learner changes what is in the frame.
LEMMA WorkIsGood ==
    ASSUME FrameGood(js), Frame!Work
    PROVE  FrameGood(js')
<1>1. FrameTyped(js) /\ Restores(js, js.ch.frame)
  BY Fields
<1>2. js' = [js EXCEPT !.made = js.worked + 2, !.worked = @ + 1]
  BY DEF Frame!Work
<1>3. /\ DOMAIN js' = DOMAIN js /\ js'.ch = js.ch /\ js'.asked = js.asked /\ js'.sop = js.sop /\ js'.saves = js.saves
      /\ js'.inputs = js.inputs /\ js'.restored = js.restored /\ js'.input = js.input /\ js'.sent = js.sent
      /\ js'.loaded = js.loaded /\ js'.tries = js.tries /\ js'.clicks = js.clicks
      /\ js'.made = js.worked + 2 /\ js'.worked = js.worked + 1
  BY <1>1, <1>2 DEF FrameTyped
<1>4. js.made \in Int /\ js.worked \in Int /\ js.tries \in Int /\ js.clicks \in Int /\ js.loaded \in BOOLEAN
  BY <1>1 DEF FrameTyped
<1>5. js.made >= 0 /\ js.worked >= 0 /\ js.made <= js.worked + 1
  BY <1>1 DEF Restores
<1>6. Restores(js', js'.ch.frame)
  <2>1. js'.made >= 1 /\ js'.made >= 0 /\ js'.worked >= 0 /\ js'.made <= js'.worked + 1
    BY <1>3, <1>4, <1>5
  <2> QED
    BY <1>1, <1>3, <2>1 DEF Restores
<1>7. js'.made >= js.made /\ js'.made \in Int /\ js'.worked \in Int /\ js'.clicks >= js.clicks
  BY <1>3, <1>4, <1>5
<1> QED
  BY <1>3, <1>4, <1>6, <1>7, Aside

\* The frame has loaded: its functions are there, or its channel is built.
LEMMA LoadIsGood ==
    ASSUME FrameGood(js), Frame!FrameLoads
    PROVE  FrameGood(js')
<1> DEFINE b == js.ch
           t == [js EXCEPT !.loaded = TRUE]
           c == IF js.sop THEN b ELSE Channel!build(b, "frame")
<1>1. FrameTyped(js) /\ Restores(js, b.frame) /\ Wired(b) /\ Between(b) /\ Told(js)
  BY Fields
<1>2. js.loaded = FALSE /\ js' = [t EXCEPT !.ch = c]
  <2>1. js.loaded = FALSE
    BY Fields DEF Frame!FrameLoads
  <2>2. js' = [js EXCEPT !.loaded = TRUE, !.ch = IF js.sop THEN @ ELSE Frame!Channel!build(@, "frame")]
    BY DEF Frame!FrameLoads
  <2>3. Frame!Channel!build(b, "frame") = Channel!build(b, "frame")
    BY SamePosts
  <2> QED
    BY <1>1, <2>1, <2>2, <2>3 DEF FrameTyped
<1>3. /\ DOMAIN t = DOMAIN js /\ t.ch = b /\ t.asked = js.asked /\ t.sop = js.sop /\ t.saves = js.saves
      /\ t.inputs = js.inputs /\ t.restored = js.restored /\ t.input = js.input /\ t.sent = js.sent
      /\ t.tries = js.tries /\ t.clicks = js.clicks /\ t.made = js.made /\ t.worked = js.worked /\ t.loaded = TRUE
  BY <1>1 DEF FrameTyped
<1> HIDE DEF t
<1>4. FrameGood(t)
  <2>1. Restores(t, t.ch.frame)
    BY <1>1, <1>3 DEF Restores
  <2>2. t.made >= js.made /\ t.clicks >= js.clicks /\ t.made \in Int /\ t.tries \in Int /\ t.clicks \in Int /\ t.worked \in Int
    BY <1>1, <1>3 DEF FrameTyped
  <2> QED
    BY <1>3, <2>1, <2>2, Aside
<1>5. CASE js.sop
  <2>1. js' = [t EXCEPT !.ch = b]
    BY <1>2, <1>5
  <2>2. Nearer(b, b)
    BY <1>1 DEF Nearer, Told, Known
  <2> HIDE DEF b
  <2>3. b.frame.bound = FALSE \/ t.loaded = TRUE
    BY <1>3
  <2> QED
    BY <1>1, <1>3, <1>4, <2>1, <2>2, ChannelOnly
<1>6. CASE ~js.sop
  <2> DEFINE y == b.frame
             u == [y EXCEPT !.bound = TRUE, !.registered = TRUE, !.ready = FALSE]
             x == b.page
             p == b.to.frame
             q == b.to.page
             l == b.log.frame
  <2>0. "frame" \in Sides /\ Channel!Other("frame") = "page"
    BY DEF Sides, Channel!Sides, Channel!Other
  <2>1. /\ y \in Windows /\ x \in Windows /\ p \in Queues /\ q \in Queues /\ l \in Logs
    BY <1>1, <2>0, Parts
  <2>2. Flows(y, x, p, q) /\ EndsOf(y, l)
    BY <1>1, <2>0, BetweenSides
  <2>3. y.bound = FALSE
    BY <1>1, <1>2 DEF Restores
  <2>4. c = Changed(b, "frame", u, p, q, l)
    BY <1>1, <1>6, <2>0, Builds
  <2>5. Flows(u, x, p, q)
    BY <2>1, <2>2, <2>3, FlowsBuild
  <2>6. /\ u \in Windows /\ u.outTbl = y.outTbl /\ u.s_transIds = y.s_transIds /\ u.s_curTranId = y.s_curTranId
        /\ u.pendingQueue = y.pendingQueue
    BY <2>1 DEF Windows
  <2>7. u.ready = FALSE
    BY <2>1 DEF Windows
  <2> HIDE DEF u
  <2>8. EndsOf(u, l)
    <3> HIDE DEF y, l
    <3> QED
      BY <2>2, <2>6, <2>7, EndsKept
  <2> HIDE DEF c
  <2>9. Wired(c) /\ Between(c) /\ c.frame = u /\ c.page = x /\ c.to.frame = p /\ c.to.page = q
    BY <1>1, <2>0, <2>1, <2>4, <2>5, <2>6, <2>8, BetweenChanged
  <2>10. Nearer(b, c)
    <3>1. y.pendingQueue = <<>>
      BY <1>1 DEF Told, Known
    <3> QED
      BY <2>6, <2>9, <3>1 DEF Nearer
  <2>11. FrameGood([t EXCEPT !.ch = c])
    BY <1>3, <1>4, <2>9, <2>10, ChannelOnly
  <2> QED
    BY <1>2, <2>11
<1> QED
  BY <1>5, <1>6
--------------------------------------------------------------------------------
\* Who waits for the answer of a call.
AskedFor(s, method, click, answer) == Frame!Asked(s.ch.page.s_curTranId, method, click, answer)

\* What a window and its queue have when a request was posted.
LEMMA PostedTravels ==
    ASSUME NEW x \in Windows, NEW q \in Queues, NEW m \in Messages
    PROVE  Travels(Waiting(x, m), Going(x, q, m)) = Travels(x, q) \cup {m}
<1>1. x.pendingQueue \in Queues /\ x.ready \in BOOLEAN
  BY DEF Windows
<1>2. CASE x.ready = TRUE
  <2>1. Waiting(x, m) = x /\ Going(x, q, m) = Append(q, m)
    BY <1>2 DEF Waiting, Going
  <2>2. In(Append(q, m)) = In(q) \cup {m}
    BY Appended
  <2> QED
    BY <1>2, <2>1, <2>2 DEF Travels
<1>3. CASE x.ready = FALSE
  <2>1. Waiting(x, m).pendingQueue = Append(x.pendingQueue, m) /\ Going(x, q, m) = q
    BY <1>3 DEF Waiting, Going, Windows
  <2>2. In(Append(x.pendingQueue, m)) = In(x.pendingQueue) \cup {m}
    BY <1>1, Appended
  <2> QED
    BY <1>3, <2>1, <2>2 DEF Travels
<1> QED
  BY <1>1, <1>2, <1>3

\* What is kept, and what is on its way, when a request was posted.
LEMMA PostedWaits ==
    ASSUME NEW x \in Windows, NEW q \in Queues, NEW m \in Messages
    PROVE  /\ In(Waiting(x, m).pendingQueue) \subseteq In(x.pendingQueue) \cup {m}
           /\ In(Going(x, q, m)) \subseteq In(q) \cup {m}
<1>1. x.pendingQueue \in Queues /\ x.ready \in BOOLEAN
  BY DEF Windows
<1>2. In(Append(q, m)) = In(q) \cup {m} /\ In(Append(x.pendingQueue, m)) = In(x.pendingQueue) \cup {m}
  BY <1>1, Appended
<1> QED
  BY <1>1, <1>2 DEF Waiting, Going, Windows

\* A window that is ready keeps nothing, another sends nothing; the order stays.
LEMMA PostedIs ==
    ASSUME NEW x \in Windows, NEW q \in Queues, NEW m \in Messages
    PROVE  LET u == Waiting(x, m)
               d == Going(x, q, m)
           IN  /\ x.ready = TRUE => u.pendingQueue = x.pendingQueue
               /\ x.ready = FALSE => d = q
               /\ In(q) \subseteq In(d)
               /\ \A A, B : Before(q, A, B) => Before(d, A, B)
<1>1. x.pendingQueue \in Queues /\ x.ready \in BOOLEAN
  BY DEF Windows
<1>2. CASE x.ready = TRUE
  <2>1. Waiting(x, m) = x /\ Going(x, q, m) = Append(q, m)
    BY <1>2 DEF Waiting, Going
  <2>2. In(Append(q, m)) = In(q) \cup {m}
    BY Appended
  <2>3. \A A, B : Before(q, A, B) => Before(Append(q, m), A, B)
    BY AppendedBefore
  <2> QED
    BY <1>2, <2>1, <2>2, <2>3 DEF Travels
<1>3. CASE x.ready = FALSE
  <2>1. Waiting(x, m).pendingQueue = Append(x.pendingQueue, m) /\ Going(x, q, m) = q
    BY <1>3 DEF Waiting, Going, Windows
  <2>2. In(Append(x.pendingQueue, m)) = In(x.pendingQueue) \cup {m}
    BY <1>1, Appended
  <2> QED
    BY <1>3, <2>1, <2>2 DEF Travels
<1> QED
  BY <1>1, <1>2, <1>3

\* What is asked over the channel, and who waits for it.
LEMMA CallFields ==
    ASSUME NEW s, FrameTyped(s), NEW method, NEW click, NEW answer
    PROVE  LET t == Frame!call(s, method, click, answer)
           IN  /\ DOMAIN t = DOMAIN s
               /\ t.sop = s.sop /\ t.saves = s.saves /\ t.inputs = s.inputs /\ t.loaded = s.loaded /\ t.made = s.made
               /\ t.restored = s.restored /\ t.tries = s.tries /\ t.input = s.input /\ t.sent = s.sent
               /\ t.clicks = s.clicks /\ t.worked = s.worked
<1> DEFINE c == Channel!call(s.ch, "page", method, FALSE)
           r == AskedFor(s, method, click, answer)
<1>1. Frame!call(s, method, click, answer) = [s EXCEPT !.ch = c, !.asked = @ \cup {r}]
  BY SameEnds DEF Frame!call, AskedFor
<1> HIDE DEF c, r
<1>2. LET t == [s EXCEPT !.ch = c, !.asked = @ \cup {r}]
      IN  /\ DOMAIN t = DOMAIN s
          /\ t.sop = s.sop /\ t.saves = s.saves /\ t.inputs = s.inputs /\ t.loaded = s.loaded /\ t.made = s.made
          /\ t.restored = s.restored /\ t.tries = s.tries /\ t.input = s.input /\ t.sent = s.sent
          /\ t.clicks = s.clicks /\ t.worked = s.worked
  BY DEF FrameTyped
<1> QED
  BY <1>1, <1>2 DEF c, r

\* A call over the channel.
LEMMA CallSends ==
    ASSUME NEW s, FrameTyped(s), NEW method, NEW click, NEW answer
    PROVE  Frame!call(s, method, click, answer).ch = Channel!call(s.ch, "page", method, FALSE)
<1> DEFINE c == Channel!call(s.ch, "page", method, FALSE)
           r == AskedFor(s, method, click, answer)
<1>1. Frame!call(s, method, click, answer) = [s EXCEPT !.ch = c, !.asked = @ \cup {r}]
  BY SameEnds DEF Frame!call, AskedFor
<1> HIDE DEF c, r
<1> QED
  BY <1>1 DEF FrameTyped, c

\* Who waits for the answer of the call.
LEMMA CallAsks ==
    ASSUME NEW s, FrameTyped(s), NEW method, NEW click, NEW answer
    PROVE  Frame!call(s, method, click, answer).asked = s.asked \cup {AskedFor(s, method, click, answer)}
<1> DEFINE c == Channel!call(s.ch, "page", method, FALSE)
           r == AskedFor(s, method, click, answer)
<1>1. Frame!call(s, method, click, answer) = [s EXCEPT !.ch = c, !.asked = @ \cup {r}]
  BY SameEnds DEF Frame!call, AskedFor
<1> HIDE DEF c, r
<1> QED
  BY <1>1 DEF FrameTyped, r

\* The window that called.
LEMMA CallTypes ==
    ASSUME NEW x \in Windows, NEW method \in Methods
    PROVE  LET k == Called(x, FALSE)
           IN  /\ k.outTbl = x.outTbl \cup {x.s_curTranId} /\ k.s_curTranId = x.s_curTranId + 1
               /\ k.pendingQueue = x.pendingQueue
               /\ k \in Windows /\ Request(x, method) \in Messages
<1>1. Called(x, FALSE) \in Windows
  <2>1. x.s_curTranId \in Int /\ x.s_curTranId + 1 \in Int
    BY DEF Windows
  <2> QED
    BY <2>1 DEF Called, Windows
<1>2. method \in Args
  BY DEF Methods, Args
<1>3. Request(x, method) \in Messages
  BY <1>2 DEF Request, Channel!Message, Messages, Windows
<1>4. /\ Called(x, FALSE).outTbl = x.outTbl \cup {x.s_curTranId} /\ Called(x, FALSE).s_curTranId = x.s_curTranId + 1
      /\ Called(x, FALSE).pendingQueue = x.pendingQueue
  BY DEF Called, Windows
<1> QED
  BY <1>1, <1>3, <1>4

\* A call does not change whether the window is ready.
LEMMA CallStaysReady ==
    ASSUME NEW x \in Windows
    PROVE  Called(x, FALSE).ready = x.ready
BY DEF Called, Windows

\* The channel after a call of the page.
LEMMA CallChannel ==
    ASSUME NEW b, Wired(b), Between(b), NEW method \in Methods
    PROVE  LET x == b.page
               k == Called(x, FALSE)
               m == Request(x, method)
               c == Channel!call(b, "page", method, FALSE)
           IN  /\ Wired(c) /\ Between(c) /\ DOMAIN c = DOMAIN b
               /\ c.page = Waiting(k, m) /\ c.frame = b.frame
               /\ c.to.frame = Going(k, b.to.frame, m) /\ c.to.page = b.to.page
<1> DEFINE x == b.page
           y == b.frame
           p == b.to.page
           q == b.to.frame
           l == b.log.page
           k == Called(x, FALSE)
           m == Request(x, method)
           u == Waiting(k, m)
           d == Going(k, q, m)
           n == [l EXCEPT !.asked = @ \cup {x.s_curTranId}]
           c == Channel!call(b, "page", method, FALSE)
<1>0. "page" \in Sides /\ Channel!Other("page") = "frame"
  BY DEF Sides, Channel!Sides, Channel!Other
<1>1. /\ x \in Windows /\ y \in Windows /\ p \in Queues /\ q \in Queues /\ l \in Logs
  BY <1>0, Parts
<1>2. Flows(x, y, p, q) /\ EndsOf(x, l)
  BY <1>1, <1>0, BetweenSides
<1>3. method \in Args /\ FALSE \in BOOLEAN
  BY DEF Methods, Args
<1>4. /\ m \in Messages /\ k \in Windows /\ c = Changed(b, "page", u, p, d, n)
  BY <1>0, <1>1, <1>3, Calls
<1>5. m.kind = "request" /\ m.id = x.s_curTranId
  BY DEF Request, Channel!Message
<1>6. n \in Logs /\ n.ended = l.ended
  BY <1>1 DEF Logs, Windows
<1> HIDE DEF c, n, m
<1>8. EndsOf(k, n)
  BY <1>1, <1>2, <1>6, EndsCalled
<1>9. u \in Windows /\ d \in Queues
  BY <1>1, <1>4, PostedTypes
<1>10. EndsOf(u, n)
  BY <1>4, <1>8, EndsWaiting
<1>11. Flows(u, y, p, d)
  BY <1>1, <1>2, <1>4, <1>5, FlowsCall
<1>12. Wired(c) /\ Between(c) /\ DOMAIN c = DOMAIN b /\ c.page = u /\ c.frame = y /\ c.to.frame = d /\ c.to.page = p
  <2>1. "page" \in Sides /\ u \in Windows /\ p \in Queues /\ d \in Queues /\ n \in Logs
        /\ EndsOf(u, n) /\ Flows(u, b[Channel!Other("page")], p, d)
    BY <1>0, <1>1, <1>6, <1>9, <1>10, <1>11
  <2> HIDE DEF u, d
  <2> QED
    BY <1>0, <1>4, <2>1, BetweenChanged
<1> QED
  BY <1>12 DEF c, m
--------------------------------------------------------------------------------
\* One more click that nothing was sent for yet.
Spare(s) == LastWaits(s) => Len(s.sent) + Cardinality(Graded(s.asked)) + 1 <= s.clicks

\* What the function that is called next will be told of the click it is called for.
MayCall(s, method, click, answer) ==
    /\ s.sop = FALSE
    /\ method = "setState" => s.restored = FALSE /\ \A r \in s.asked : r.method # "setState"
    /\ method # "setState" => Spare(s)
    /\ click.ordered = TRUE /\ method = "getGrade" =>
          /\ click.made <= s.made
          /\ s.restored = FALSE => /\ click.made = 0 /\ s.ch.page.ready = TRUE
                                   /\ In(s.ch.to.frame) \cap SetStates # {}
    /\ click.ordered = TRUE /\ method = "getState" =>
          s.saves = TRUE /\ s.restored = TRUE /\ click.made <= answer /\ answer <= s.made /\ answer >= 1

\* What is on its way after a call was asked for, and each call once.
LEMMA CallIsKnown ==
    ASSUME NEW s, AlmostGood(s), NEW method \in Methods, NEW click \in Clicks, NEW answer \in Int,
           MayCall(s, method, click, answer)
    PROVE  LET t == Frame!call(s, method, click, answer)
           IN  Known(t.ch.page, t.ch.frame, t.ch.to.frame, t.ch.to.page, t.asked)
<1> DEFINE b == s.ch
           x == b.page
           q == b.to.frame
           p == b.to.page
           k == Called(x, FALSE)
           m == Request(x, method)
           r == AskedFor(s, method, click, answer)
           t == Frame!call(s, method, click, answer)
           u == Waiting(k, m)
           d == Going(k, q, m)
<1>1. /\ FrameTyped(s) /\ Between(b) /\ Known(x, b.frame, q, p, s.asked)
  BY DEF AlmostGood, Told
<1>3. x \in Windows /\ q \in Queues /\ EndsOf(x, b.log.page) /\ Wired(b)
  BY <1>1 DEF FrameTyped, Wired, Sides, Channel!Sides, Between
<1>2. /\ k \in Windows /\ m \in Messages /\ t.asked = s.asked \cup {r} /\ t.ch.page = u /\ t.ch.frame = b.frame
      /\ t.ch.to.frame = d /\ t.ch.to.page = p
  <2> DEFINE c == Channel!call(b, "page", method, FALSE)
  <2>1. t.ch = c /\ t.asked = s.asked \cup {r}
    <3>1. t.ch = c
      BY <1>1, CallSends
    <3>2. t.asked = s.asked \cup {r}
      BY <1>1, CallAsks
    <3> QED
      BY <3>1, <3>2
  <2>2. k \in Windows /\ m \in Messages
    BY <1>3, CallTypes
  <2>3. c.page = u /\ c.frame = b.frame /\ c.to.frame = d /\ c.to.page = p
    BY <1>1, <1>3, CallChannel
  <2> HIDE DEF c, u, d, k, m, t
  <2> QED
    BY <2>1, <2>2, <2>3
<1>4. r.id = x.s_curTranId /\ r.method = method /\ m.id = x.s_curTranId /\ m.kind = "request" /\ m.arg = method
  BY DEF AskedFor, Frame!Asked, Request, Channel!Message
<1>5. k.outTbl = x.outTbl \cup {x.s_curTranId} /\ k.s_curTranId = x.s_curTranId + 1 /\ k.pendingQueue = x.pendingQueue
  BY <1>3, CallTypes
<1> HIDE DEF k, m, r, t
<1>6. u.outTbl = k.outTbl /\ u.s_curTranId = k.s_curTranId
  BY <1>2, WaitingIs
<1>7. Travels(u, d) = Travels(x, q) \cup {m}
  <2>1. Travels(u, d) = Travels(k, q) \cup {m}
    BY <1>2, <1>3, PostedTravels
  <2> HIDE DEF u, d
  <2> QED
    BY <1>5, <2>1 DEF Travels
<1> HIDE DEF u, d
<1>8. x.s_curTranId \in Int /\ \A z \in s.asked : z.id < x.s_curTranId
  BY <1>1, <1>3 DEF Known, EndsOf, Windows
<1>9. \A z \in s.asked : z.id # r.id
  BY <1>4, <1>8
<1>10. u.s_curTranId >= 1 /\ x.s_curTranId >= 1
  BY <1>1, <1>5, <1>6, <1>8 DEF Known
<1>11. \A z \in t.asked : z.id \in u.outTbl /\ z.id >= 1
  BY <1>1, <1>2, <1>4, <1>5, <1>6, <1>10 DEF Known
<1>12. ASSUME NEW y \in t.asked, NEW z \in t.asked,
              y.id = z.id \/ (y.method = "setState" /\ z.method = "setState")
       PROVE  y = z
  BY <1>1, <1>2, <1>4, <1>9, <1>12 DEF Known, MayCall
<1>13. \A n \in Travels(u, d) :
          IF n.kind = "request" THEN \E z \in t.asked : z.id = n.id /\ z.method = n.arg ELSE n.kind = "ready"
  BY <1>1, <1>2, <1>4, <1>7 DEF Known
<1>14. \A n \in In(p) :
          IF n.kind = "answer" THEN n.arg \in Int /\ \E z \in t.asked : z.id = n.id ELSE n.kind = "ready"
  BY <1>1, <1>2 DEF Known
<1> QED
  BY <1>1, <1>2, <1>10, <1>11, <1>12, <1>13, <1>14 DEF Known, t

\* What is asked for is answered with what the frame has, after its saved state came back.
LEMMA CallWaits ==
    ASSUME NEW s, AlmostGood(s), NEW method \in Methods, NEW click \in Clicks, NEW answer \in Int,
           MayCall(s, method, click, answer),
           NEW z \in s.asked \cup {AskedFor(s, method, click, answer)}, z.click.ordered = TRUE
    PROVE  LET t == Frame!call(s, method, click, answer)
           IN  Waits(z, t.ch.page, t.ch.to.frame, t.ch.to.page, t.restored, t.saves, t.made)
<1> DEFINE b == s.ch
           x == b.page
           q == b.to.frame
           p == b.to.page
           k == Called(x, FALSE)
           m == Request(x, method)
           r == AskedFor(s, method, click, answer)
           t == Frame!call(s, method, click, answer)
           u == Waiting(k, m)
           d == Going(k, q, m)
           R == RequestsWith(z.id)
<1>1. /\ FrameTyped(s) /\ Between(b) /\ Told(s) /\ Known(x, b.frame, q, p, s.asked)
  BY DEF AlmostGood, Told
<1>3. t.restored = s.restored /\ t.saves = s.saves /\ t.made = s.made
  BY <1>1, CallFields
<1>4. x \in Windows /\ q \in Queues /\ EndsOf(x, b.log.page) /\ Wired(b)
  BY <1>1 DEF FrameTyped, Wired, Sides, Channel!Sides, Between
<1>2. /\ k \in Windows /\ m \in Messages /\ t.asked = s.asked \cup {r} /\ t.ch.page = u
      /\ t.ch.to.frame = d /\ t.ch.to.page = p
  <2> DEFINE c == Channel!call(b, "page", method, FALSE)
  <2>1. t.ch = c /\ t.asked = s.asked \cup {r}
    <3>1. t.ch = c
      BY <1>1, CallSends
    <3>2. t.asked = s.asked \cup {r}
      BY <1>1, CallAsks
    <3> QED
      BY <3>1, <3>2
  <2>2. k \in Windows /\ m \in Messages
    BY <1>4, CallTypes
  <2>3. c.page = u /\ c.to.frame = d /\ c.to.page = p
    BY <1>1, <1>4, CallChannel
  <2> HIDE DEF c, u, d, k, m, t
  <2> QED
    BY <2>1, <2>2, <2>3
<1>5. /\ r.id = x.s_curTranId /\ r.method = method /\ r.answer = answer /\ r.click = click
      /\ m.id = x.s_curTranId /\ m.kind = "request"
  BY DEF AskedFor, Frame!Asked, Request, Channel!Message
<1>6. k.pendingQueue = x.pendingQueue
  BY <1>4, CallTypes
<1>7. k.ready = x.ready /\ x.ready \in BOOLEAN
  BY <1>4, CallStaysReady DEF Windows
<1> HIDE DEF k, m, r, t
<1>8. /\ In(u.pendingQueue) \subseteq In(x.pendingQueue) \cup {m}
      /\ x.ready = TRUE => u.pendingQueue = x.pendingQueue
      /\ In(d) \subseteq In(q) \cup {m}
      /\ \A A, B : Before(q, A, B) => Before(d, A, B)
  <2>1. /\ In(u.pendingQueue) \subseteq In(k.pendingQueue) \cup {m}
        /\ k.ready = TRUE => u.pendingQueue = k.pendingQueue
        /\ In(d) \subseteq In(q) \cup {m}
        /\ \A A, B : Before(q, A, B) => Before(d, A, B)
    <3>1. In(u.pendingQueue) \subseteq In(k.pendingQueue) \cup {m} /\ In(d) \subseteq In(q) \cup {m}
      <4>1. k \in Windows /\ q \in Queues /\ m \in Messages
        BY <1>2, <1>4
      <4> HIDE DEF q
      <4> QED
        BY <4>1, PostedWaits
    <3>2. (k.ready = TRUE => u.pendingQueue = k.pendingQueue) /\ \A A, B : Before(q, A, B) => Before(d, A, B)
      BY <1>2, <1>4, PostedIs
    <3> QED
      BY <3>1, <3>2
  <2> HIDE DEF u, d
  <2> QED
    BY <1>6, <1>7, <2>1
<1>9. x.s_curTranId \in Int /\ \A y \in s.asked : y.id < x.s_curTranId
  BY <1>1, <1>4 DEF Known, EndsOf, Windows
<1>10. CASE z \in s.asked
  <2>1. Waits(z, x, q, p, s.restored, s.saves, s.made)
    BY <1>1, <1>10 DEF Told
  <2>2. m \notin R
    BY <1>5, <1>9, <1>10 DEF RequestsWith
  <2> HIDE DEF u, d, R
  <2>3. In(u.pendingQueue) \cap R \subseteq In(x.pendingQueue) \cap R /\ In(d) \cap R \subseteq In(q) \cap R
    BY <1>8, <2>2
  <2>4. ASSUME z.method = "getGrade"
        PROVE  /\ In(u.pendingQueue) \cap R # {} => s.restored = TRUE
               /\ In(d) \cap R # {} /\ s.restored = FALSE => Before(d, SetStates, R)
    BY <1>8, <2>1, <2>3, <2>4 DEF Waits, R
  <2>5. Waits(z, u, d, p, s.restored, s.saves, s.made)
    BY <2>1, <2>4 DEF Waits, R
  <2> QED
    BY <1>2, <1>3, <2>5 DEF t
<1>11. CASE z = r
  <2>1. \A n \in In(p) : n.kind = "answer" => n.id # z.id
    BY <1>1, <1>5, <1>9, <1>11 DEF Known
  <2>2. \A n \in Travels(x, q) : n.kind = "request" => n.id # z.id
    BY <1>1, <1>5, <1>9, <1>11 DEF Known
  <2>3. In(x.pendingQueue) \cap R = {} /\ In(q) \cap R = {}
    BY <2>2 DEF RequestsWith, Travels
  <2>4. m \in R /\ m.id = z.id
    BY <1>2, <1>5, <1>11 DEF RequestsWith
  <2>5. ASSUME method = "getGrade", s.restored = FALSE
        PROVE  /\ In(u.pendingQueue) \cap R = {}
               /\ Before(d, SetStates, R)
    <3>1. x.ready = TRUE /\ In(q) \cap SetStates # {}
      BY <1>5, <1>11, <2>5 DEF MayCall
    <3>2. In(u.pendingQueue) \cap R = {}
      <4> HIDE DEF R, u
      <4> QED
        BY <1>8, <2>3, <3>1
    <3>3. d = Append(q, m)
      BY <1>7, <3>1 DEF Going
    <3>4. Before(Append(q, m), SetStates, R)
      <4> HIDE DEF R, u, d
      <4> QED
        BY <1>2, <1>4, <2>3, <2>4, <3>1, AppendedBefore
    <3> QED
      BY <3>2, <3>3, <3>4
  <2>6. s.restored \in BOOLEAN
    BY <1>1 DEF FrameTyped
  <2>7. ASSUME method = "getGrade"
        PROVE  click.made <= s.made /\ (s.restored = FALSE => click.made = 0)
    BY <1>5, <1>11, <2>7 DEF MayCall
  <2>8. ASSUME method = "getState"
        PROVE  s.saves = TRUE /\ s.restored = TRUE /\ click.made <= answer /\ answer <= s.made /\ answer >= 1
    BY <1>5, <1>11, <2>8 DEF MayCall
  <2> HIDE DEF u, d
  <2>9. Waits(z, u, d, p, s.restored, s.saves, s.made)
    BY <1>5, <1>11, <2>1, <2>5, <2>6, <2>7, <2>8 DEF Waits
  <2> QED
    BY <1>2, <1>3, <2>9 DEF t
<1> QED
  BY <1>10, <1>11 DEF r
--------------------------------------------------------------------------------
\* How many wait for an answer or a state.
LEMMA GradedNumber ==
    ASSUME NEW A, IsFiniteSet(A)
    PROVE  /\ Cardinality(Graded(A)) \in Nat
           /\ \A r : r \notin A /\ r.method # "setState" => Cardinality(Graded(A \cup {r})) = Cardinality(Graded(A)) + 1
           /\ \A r : r.method = "setState" => Graded(A \cup {r}) = Graded(A) /\ Graded(A \ {r}) = Graded(A)
           /\ \A r \in A : r.method # "setState" => Cardinality(Graded(A \ {r})) = Cardinality(Graded(A)) - 1
<1>1. IsFiniteSet(Graded(A)) /\ Cardinality(Graded(A)) \in Nat
  BY FS_Subset, FS_CardinalityType DEF Graded
<1>2. ASSUME NEW r, r \notin A, r.method # "setState"
      PROVE  Cardinality(Graded(A \cup {r})) = Cardinality(Graded(A)) + 1
  <2>1. Graded(A \cup {r}) = Graded(A) \cup {r} /\ r \notin Graded(A)
    BY <1>2 DEF Graded
  <2> QED
    BY <1>1, <2>1, FS_AddElement
<1>3. ASSUME NEW r, r.method = "setState"
      PROVE  Graded(A \cup {r}) = Graded(A) /\ Graded(A \ {r}) = Graded(A)
  BY <1>3 DEF Graded
<1>4. ASSUME NEW r \in A, r.method # "setState"
      PROVE  Cardinality(Graded(A \ {r})) = Cardinality(Graded(A)) - 1
  <2>1. Graded(A \ {r}) = Graded(A) \ {r} /\ r \in Graded(A)
    BY <1>4 DEF Graded
  <2> QED
    BY <1>1, <2>1, FS_RemoveElement
<1> QED
  BY <1>1, <1>2, <1>3, <1>4

\* A call keeps the invariant, when it may be made.
LEMMA CallIsGood ==
    ASSUME NEW s, AlmostGood(s), NEW method \in Methods, NEW click \in Clicks, NEW answer \in Int,
           MayCall(s, method, click, answer)
    PROVE  LET t == Frame!call(s, method, click, answer)
           IN  AlmostGood(t) /\ (Restorable(s) \/ method = "setState" => Restorable(t))
<1> DEFINE b == s.ch
           x == b.page
           q == b.to.frame
           k == Called(x, FALSE)
           m == Request(x, method)
           r == AskedFor(s, method, click, answer)
           t == Frame!call(s, method, click, answer)
           c == Channel!call(b, "page", method, FALSE)
<1>1. /\ FrameTyped(s) /\ Between(b) /\ Told(s) /\ Restores(s, b.frame) /\ Restored(s) /\ Counted(s) /\ SentGood(s)
      /\ Wired(b) /\ Known(x, b.frame, q, b.to.page, s.asked)
  BY DEF AlmostGood, FrameTyped, Told
<1>2. x \in Windows /\ q \in Queues /\ EndsOf(x, b.log.page)
  BY <1>1 DEF Wired, Sides, Channel!Sides, Between
<1>3. r \in Asks /\ r.id = x.s_curTranId /\ r.method = method
  <2>1. x.s_curTranId \in Int
    BY <1>2 DEF Windows
  <2> QED
    BY <2>1 DEF AskedFor, Frame!Asked, Asks
<1>4. r \notin s.asked
  BY <1>1, <1>2, <1>3 DEF Known, EndsOf, Windows
<1>5. m \in Messages /\ m.kind = "request" /\ m.arg = method
  <2>1. m \in Messages
    BY <1>2, CallTypes
  <2> QED
    BY <2>1 DEF Request, Channel!Message
<1>6. c.frame = b.frame /\ Wired(c) /\ Between(c)
  BY <1>1, CallChannel
<1>7. Travels(c.page, c.to.frame) = Travels(x, q) \cup {m}
  <2>1. k \in Windows
    BY <1>2, CallTypes
  <2>2. k.pendingQueue = x.pendingQueue
    BY <1>2, CallTypes
  <2>3. c.page = Waiting(k, m) /\ c.to.frame = Going(k, q, m)
    BY <1>1, CallChannel
  <2> HIDE DEF k, m
  <2>4. Travels(Waiting(k, m), Going(k, q, m)) = Travels(k, q) \cup {m}
    BY <1>2, <1>5, <2>1, PostedTravels
  <2> HIDE DEF c, x, q
  <2> QED
    BY <2>2, <2>3, <2>4 DEF Travels
<1> HIDE DEF m, r
<1>8. Known(t.ch.page, t.ch.frame, t.ch.to.frame, t.ch.to.page, t.asked)
  BY CallIsKnown
<1>9. \A z \in s.asked \cup {r} : z.click.ordered = TRUE =>
          Waits(z, t.ch.page, t.ch.to.frame, t.ch.to.page, t.restored, t.saves, t.made)
  BY CallWaits DEF r
<1>10. t.asked = s.asked \cup {r}
  BY <1>1, CallAsks DEF r
<1>11. t.ch = c
  BY <1>1, CallSends
<1>12. /\ DOMAIN t = DOMAIN s
       /\ t.sop = s.sop /\ t.saves = s.saves /\ t.inputs = s.inputs /\ t.loaded = s.loaded /\ t.made = s.made
       /\ t.restored = s.restored /\ t.tries = s.tries /\ t.input = s.input /\ t.sent = s.sent
       /\ t.clicks = s.clicks /\ t.worked = s.worked
  BY <1>1, CallFields
<1> HIDE DEF t, c
<1>13. FrameTyped(t)
  <2>1. IsFiniteSet(s.asked \cup {r}) /\ s.asked \cup {r} \subseteq Asks
    BY <1>1, <1>3, FS_AddElement DEF FrameTyped
  <2> QED
    BY <1>1, <1>6, <1>10, <1>11, <1>12, <2>1 DEF FrameTyped
<1>14. Told(t)
  BY <1>8, <1>9, <1>10 DEF Told
<1>15. s.sop = FALSE
  BY DEF MayCall
<1>16. Restores(t, t.ch.frame)
  BY <1>1, <1>6, <1>11, <1>12, <1>15 DEF Restores
<1>17. Restored(t)
  <2>1. method = "setState" => s.restored = FALSE
    BY DEF MayCall
  <2>2. m \in SetStates => method = "setState"
    BY <1>5 DEF SetStates
  <2> QED
    BY <1>1, <1>7, <1>11, <1>12, <2>1, <2>2 DEF Restored
<1>18. Counted(t)
  <2>1. LastWaits(t) = LastWaits(s) /\ Len(t.sent) = Len(s.sent) /\ t.clicks = s.clicks
    BY <1>12 DEF LastWaits
  <2>2. /\ IsFiniteSet(s.asked) /\ Len(s.sent) \in Nat /\ s.clicks \in Int
        /\ Cardinality(Graded(s.asked)) \in Nat
    BY <1>1, GradedNumber DEF FrameTyped
  <2>3. CASE method = "setState"
    <3>1. Graded(t.asked) = Graded(s.asked)
      <4> DEFINE A == s.asked
      <4>1. t.asked = A \cup {r} /\ IsFiniteSet(A) /\ r.method = "setState"
        BY <1>3, <1>4, <1>10, <2>2, <2>3
      <4> HIDE DEF A
      <4>2. Graded(A \cup {r}) = Graded(A)
        BY <4>1, GradedNumber
      <4> QED
        BY <4>1, <4>2 DEF A
    <3> QED
      BY <1>1, <2>1, <3>1 DEF Counted
  <2>4. CASE method # "setState"
    <3>1. Cardinality(Graded(t.asked)) = Cardinality(Graded(s.asked)) + 1
      BY <1>3, <1>4, <1>10, <2>2, <2>4, GradedNumber
    <3>2. Spare(s)
      BY <2>4 DEF MayCall
    <3> QED
      BY <2>1, <2>2, <3>1, <3>2 DEF Counted, Spare
  <2> QED
    BY <2>3, <2>4
<1>19. SentGood(t)
  BY <1>1, <1>12 DEF SentGood, LastWaits
<1>20. ASSUME Restorable(s) \/ method = "setState"
       PROVE  Restorable(t)
  <2>1. method = "setState" => m \in SetStates
    BY <1>5 DEF SetStates
  <2> QED
    BY <1>7, <1>11, <1>12, <1>20, <2>1 DEF Restorable
<1>21. Between(t.ch)
  BY <1>6, <1>11
<1>22. AlmostGood(t)
  BY <1>13, <1>14, <1>16, <1>17, <1>18, <1>19, <1>21 DEF AlmostGood
<1> QED
  BY <1>20, <1>22 DEF t
--------------------------------------------------------------------------------
\* What may be sent for a click.
MaySend(s, input, click) ==
    LastWaits(s) /\ click.ordered = TRUE =>
        /\ click.made <= input[1] /\ input[1] <= input[2]
        /\ s.sop = TRUE => input[1] = input[2]
        /\ s.saves = TRUE => input[1] >= 1

\* The problem is sent, with what its input has now.
LEMMA SendIsGood ==
    ASSUME NEW s, FrameGood(s), Spare(s), NEW input \in Int \X Int, NEW click \in Clicks, MaySend(s, input, click),
           NEW t, DOMAIN t = DOMAIN s, t.ch = s.ch, t.asked = s.asked,
           t.sop = s.sop, t.saves = s.saves, t.inputs = s.inputs, t.restored = s.restored,
           t.loaded = s.loaded, t.made = s.made, t.tries = s.tries, t.clicks = s.clicks, t.worked = s.worked,
           t.input = input, t.sent = Append(s.sent, [input |-> input, click |-> click])
    PROVE  FrameGood(t)
<1>1. /\ FrameTyped(s) /\ Told(s) /\ Between(s.ch) /\ Restored(s) /\ Restores(s, s.ch.frame)
      /\ Counted(s) /\ SentGood(s) /\ Restorable(s)
  BY Fields
<1> DEFINE e == [input |-> input, click |-> click]
<1>2. e \in Submissions /\ s.sent \in Seq(Submissions)
  BY <1>1 DEF Submissions, FrameTyped
<1>3. /\ t.sent \in Seq(Submissions) /\ Len(t.sent) = Len(s.sent) + 1
      /\ \A i \in DOMAIN t.sent : IF i \in DOMAIN s.sent THEN t.sent[i] = s.sent[i] ELSE t.sent[i] = e
  <2> HIDE DEF e
  <2>1. t.sent = Append(s.sent, e)
    BY DEF e
  <2> QED
    BY <1>2, <2>1
<1>4. FrameTyped(t)
  BY <1>1, <1>3 DEF FrameTyped
<1>5. Counted(t)
  <2>1. Len(s.sent) \in Nat /\ Cardinality(Graded(s.asked)) \in Nat /\ s.clicks \in Int
    BY <1>1, GradedNumber DEF FrameTyped
  <2> QED
    BY <1>3, <2>1 DEF Counted, Spare, LastWaits
<1>6. SentGood(t)
  <2> SUFFICES ASSUME LastWaits(t), NEW i \in DOMAIN t.sent, t.sent[i].click.ordered = TRUE
               PROVE  LET x == t.sent[i]
                      IN  /\ x.click.made <= x.input[1] /\ x.input[1] <= x.input[2]
                          /\ s.sop = TRUE => x.input[1] = x.input[2]
                          /\ s.saves = TRUE => x.input[1] >= 1
    BY DEF SentGood
  <2>1. LastWaits(s)
    BY DEF LastWaits
  <2>2. CASE i \in DOMAIN s.sent
    BY <1>1, <1>3, <2>1, <2>2 DEF SentGood
  <2>3. CASE i \notin DOMAIN s.sent
    <3>1. t.sent[i].click = click /\ t.sent[i].input = input
      BY <1>3, <2>3
    <3> QED
      BY <2>1, <3>1 DEF MaySend
  <2> QED
    BY <2>2, <2>3
<1>7. Restores(t, t.ch.frame) /\ Restored(t) /\ Restorable(t) /\ Told(t)
  <2>1. Restores(t, t.ch.frame)
    BY <1>1 DEF Restores
  <2>2. Restored(t) /\ Restorable(t)
    BY <1>1 DEF Restored, Restorable
  <2>3. Told(t)
    BY <1>1 DEF Told
  <2> QED
    BY <2>1, <2>2, <2>3
<1> QED
  BY <1>1, <1>4, <1>5, <1>6, <1>7 DEF FrameGood, AlmostGood

\* submit_internal keeps the invariant.
LEMMA SubmitsIsGood ==
    ASSUME NEW s, FrameGood(s), Spare(s), NEW click \in Clicks, MaySend(s, s.input, click)
    PROVE  FrameGood(Frame!submit_internal(s, click))
<1> DEFINE t == Frame!submit_internal(s, click)
<1>1. FrameTyped(s) /\ s.input \in Int \X Int
  BY Fields DEF FrameTyped
<1>2. /\ DOMAIN t = DOMAIN s /\ t.ch = s.ch /\ t.asked = s.asked
      /\ t.sop = s.sop /\ t.saves = s.saves /\ t.inputs = s.inputs /\ t.restored = s.restored
      /\ t.loaded = s.loaded /\ t.made = s.made /\ t.tries = s.tries /\ t.clicks = s.clicks /\ t.worked = s.worked
      /\ t.input = s.input /\ t.sent = Append(s.sent, [input |-> s.input, click |-> click])
  BY <1>1 DEF FrameTyped, Frame!submit_internal
<1> HIDE DEF t
<1>3. FrameGood(t)
  BY <1>1, <1>2, SendIsGood
<1> QED
  BY <1>3 DEF t

\* The input gets answer and state, and the problem is sent.
LEMMA AnsweredIsGood ==
    ASSUME NEW s, FrameGood(s), Spare(s), NEW click \in Clicks, NEW answer \in Int, NEW state \in Int,
           MaySend(s, <<answer, state>>, click)
    PROVE  FrameGood(Frame!answered(s, answer, state, click)) /\ LastWaits(Frame!answered(s, answer, state, click)) = LastWaits(s)
<1> DEFINE t == Frame!answered(s, answer, state, click)
           i == <<answer, state>>
<1>1. FrameTyped(s) /\ i \in Int \X Int
  BY Fields
<1> HIDE DEF i
<1>2. /\ DOMAIN t = DOMAIN s /\ t.ch = s.ch /\ t.asked = s.asked
      /\ t.sop = s.sop /\ t.saves = s.saves /\ t.inputs = s.inputs /\ t.restored = s.restored
      /\ t.loaded = s.loaded /\ t.made = s.made /\ t.tries = s.tries /\ t.clicks = s.clicks /\ t.worked = s.worked
      /\ t.input = i /\ t.sent = Append(s.sent, [input |-> i, click |-> click])
  BY <1>1 DEF FrameTyped, Frame!submit_internal, Frame!answered, i
<1> HIDE DEF t
<1>3. FrameGood(t)
  <2>1. MaySend(s, i, click)
    BY DEF i
  <2> QED
    BY <1>1, <1>2, <2>1, SendIsGood
<1> QED
  BY <1>2, <1>3 DEF t, LastWaits

\* The click that is counted has what the frame has, and what it will have.
LEMMA ClickIs ==
    ASSUME NEW s, FrameGood(s)
    PROVE  LET c == Frame!Click(s)
           IN  /\ c \in Clicks /\ c.made <= s.made /\ (s.restored = FALSE => c.made = 0)
               /\ s.restored = TRUE => c.made = s.made
               /\ c.ordered = TRUE => s.restored = TRUE \/ (s.sop = FALSE /\ s.ch.page.ready = TRUE)
<1>1. /\ FrameTyped(s) /\ s.restored \in BOOLEAN /\ s.sop \in BOOLEAN /\ s.made \in Int /\ s.made >= 0
      /\ s.ch.page.ready \in BOOLEAN
  BY Fields DEF Restores, Wired, Sides, Channel!Sides, Windows
<1> DEFINE made == IF s.restored THEN s.made ELSE 0
           ordered == s.restored \/ (~s.sop /\ s.ch.page.ready)
           c == Frame!Click(s)
<1>2. c.made = made /\ c.ordered = ordered /\ c = [made |-> made, ordered |-> ordered]
  BY DEF Frame!Click
<1>3. made \in Int /\ made <= s.made /\ (s.restored = FALSE => made = 0) /\ (s.restored = TRUE => made = s.made)
  BY <1>1
<1>4. ordered \in BOOLEAN /\ (ordered = TRUE => s.restored = TRUE \/ (s.sop = FALSE /\ s.ch.page.ready = TRUE))
  BY <1>1
<1> HIDE DEF made, ordered, c
<1>5. c \in Clicks
  BY <1>2, <1>3, <1>4 DEF Clicks
<1> QED
  BY <1>2, <1>3, <1>4, <1>5 DEF c
--------------------------------------------------------------------------------
\* A click is counted, and nothing was sent for it yet.
LEMMA ClickedIsGood ==
    ASSUME FrameGood(js), NEW t, DOMAIN t = DOMAIN js, t.ch = js.ch, t.asked = js.asked,
           t.sop = js.sop, t.saves = js.saves, t.inputs = js.inputs, t.restored = js.restored,
           t.loaded = js.loaded, t.made = js.made, t.tries = js.tries, t.worked = js.worked,
           t.input = js.input, t.sent = js.sent, t.clicks = js.clicks + 1
    PROVE  FrameGood(t) /\ Spare(t)
<1>1. /\ FrameTyped(js) /\ Restores(js, js.ch.frame) /\ Counted(js) /\ js.loaded \in BOOLEAN
      /\ js.made \in Int /\ js.tries \in Int /\ js.clicks \in Int /\ js.worked \in Int /\ IsFiniteSet(js.asked)
  BY Fields
<1>2. Restores(t, t.ch.frame)
  BY <1>1 DEF Restores
<1>3. t.clicks \in Int /\ t.clicks >= js.clicks /\ t.made >= js.made
  BY <1>1
<1>4. FrameGood(t)
  BY <1>1, <1>2, <1>3, Aside
<1>5. Spare(t)
  <2>1. Len(js.sent) \in Nat /\ Cardinality(Graded(js.asked)) \in Nat
    BY <1>1, GradedNumber DEF FrameTyped
  <2> QED
    BY <1>1, <2>1 DEF Spare, Counted, LastWaits
<1> QED
  BY <1>4, <1>5

\* The frame's input is asked, or read.
LEMMA UpdateIsGood ==
    ASSUME NEW s, FrameGood(s), Spare(s)
    PROVE  FrameGood(Frame!update(s)) /\ LastWaits(Frame!update(s)) = LastWaits(s)
<1> DEFINE c == Frame!Click(s)
<1>1. /\ FrameTyped(s) /\ Restores(s, s.ch.frame) /\ Restorable(s) /\ Between(s.ch)
      /\ s.sop \in BOOLEAN /\ s.restored \in BOOLEAN /\ s.made \in Int
  BY Fields
<1>2. /\ c \in Clicks /\ c.made <= s.made /\ (s.restored = FALSE => c.made = 0)
      /\ c.ordered = TRUE => s.restored = TRUE \/ (s.sop = FALSE /\ s.ch.page.ready = TRUE)
  BY ClickIs
<1> HIDE DEF c
<1>3. CASE s.sop = TRUE
  <2>1. c.ordered = TRUE => s.restored = TRUE
    BY <1>2, <1>3
  <2>2. c.ordered = TRUE => (s.saves = TRUE => s.made >= 1)
    BY <1>1, <2>1 DEF Restores
  <2>3. MaySend(s, <<s.made, s.made>>, c)
    BY <1>1, <1>2, <2>2 DEF MaySend
  <2>4. Frame!update(s) = Frame!answered(s, s.made, s.made, c)
    BY <1>3 DEF Frame!update, c
  <2> QED
    BY <1>1, <1>2, <2>3, <2>4, AnsweredIsGood
<1>4. CASE s.sop = FALSE
  <2>1. Frame!update(s) = Frame!call(s, "getGrade", c, 0)
    BY <1>4 DEF Frame!update, c
  <2>2. ASSUME c.ordered = TRUE, s.restored = FALSE
        PROVE  s.ch.page.ready = TRUE /\ In(s.ch.to.frame) \cap SetStates # {}
    <3>1. s.ch.page.ready = TRUE
      BY <1>2, <2>2
    <3>2. In(s.ch.page.pendingQueue) = {}
      BY <1>1, <3>1, NothingIn DEF Between, EndsOf
    <3>3. (In(s.ch.page.pendingQueue) \cup In(s.ch.to.frame)) \cap SetStates # {}
      BY <1>1, <1>4, <2>2 DEF Restorable, Travels
    <3> QED
      BY <3>1, <3>2, <3>3
  <2>3. MayCall(s, "getGrade", c, 0)
    BY <1>2, <1>4, <2>2 DEF MayCall
  <2>4. AlmostGood(s) /\ "getGrade" \in Methods /\ 0 \in Int
    BY DEF FrameGood, Methods
  <2> DEFINE t == Frame!call(s, "getGrade", c, 0)
  <2>5. AlmostGood(t) /\ Restorable(t)
    BY <1>1, <1>2, <2>3, <2>4, CallIsGood
  <2>6. LastWaits(t) = LastWaits(s)
    <3>1. t.inputs = s.inputs
      BY <1>1, CallFields
    <3> HIDE DEF t
    <3> QED
      BY <3>1 DEF LastWaits
  <2> HIDE DEF t
  <2>7. FrameGood(t)
    BY <2>5 DEF FrameGood
  <2> QED
    BY <2>1, <2>6, <2>7 DEF t
<1> QED
  BY <1>1, <1>3, <1>4

\* A click on Submit keeps the invariant.
LEMMA SubmitIsGood ==
    ASSUME FrameGood(js), Frame!Submit
    PROVE  FrameGood(js')
<1> DEFINE s == [js EXCEPT !.clicks = @ + 1]
           f == [js EXCEPT !.clicks = @ + 1, !.failed = TRUE]
           c == Frame!Click(s)
           u == IF "js" \in Frame!ToSet(s.inputs) THEN Frame!update(s) ELSE s
<1>1. FrameTyped(js)
  BY Fields
<1>2. FrameGood(s) /\ Spare(s)
  <2>1. /\ DOMAIN s = DOMAIN js /\ s.ch = js.ch /\ s.asked = js.asked
        /\ s.sop = js.sop /\ s.saves = js.saves /\ s.inputs = js.inputs /\ s.restored = js.restored
        /\ s.loaded = js.loaded /\ s.made = js.made /\ s.tries = js.tries /\ s.worked = js.worked
        /\ s.input = js.input /\ s.sent = js.sent /\ s.clicks = js.clicks + 1
    BY <1>1 DEF FrameTyped
  <2> HIDE DEF s
  <2> QED
    BY <2>1, ClickedIsGood
<1>3. FrameGood(f)
  <2>1. /\ DOMAIN f = DOMAIN js /\ f.ch = js.ch /\ f.asked = js.asked
        /\ f.sop = js.sop /\ f.saves = js.saves /\ f.inputs = js.inputs /\ f.restored = js.restored
        /\ f.loaded = js.loaded /\ f.made = js.made /\ f.tries = js.tries /\ f.worked = js.worked
        /\ f.input = js.input /\ f.sent = js.sent /\ f.clicks = js.clicks + 1
    BY <1>1 DEF FrameTyped
  <2> HIDE DEF f
  <2> QED
    BY <2>1, ClickedIsGood
<1>4. js' = f \/ js' = IF LastWaits(s) THEN u ELSE Frame!submit_internal(u, c)
  BY DEF Frame!Submit, Frame!submit_save_waitfor, LastWaits
<1> HIDE DEF s, f
<1>5. FrameGood(u) /\ LastWaits(u) = LastWaits(s) /\ c \in Clicks
  <2>1. FrameGood(Frame!update(s)) /\ LastWaits(Frame!update(s)) = LastWaits(s)
    BY <1>2, UpdateIsGood
  <2>2. c \in Clicks
    BY <1>2, ClickIs
  <2> QED
    BY <1>2, <2>1, <2>2
<1> HIDE DEF u, c
<1>6. CASE ~LastWaits(s)
  <2>1. Spare(u) /\ MaySend(u, u.input, c)
    BY <1>5, <1>6 DEF Spare, MaySend
  <2>2. FrameGood(Frame!submit_internal(u, c))
    BY <1>5, <2>1, SubmitsIsGood, Zenon
  <2> QED
    BY <1>3, <1>4, <1>6, <2>2
<1> QED
  BY <1>3, <1>4, <1>5, <1>6
--------------------------------------------------------------------------------
\* The frame takes a request, and its answer is on its way.
LEMMA AnswerChannel ==
    ASSUME NEW b, Wired(b), Between(b), b.to.frame # <<>>, Head(b.to.frame).kind = "request",
           Head(b.to.frame).id # 0, NEW how \in Args,
           NEW c, c = Frame!Channel!complete([b EXCEPT !.to["frame"] = Tail(@)], "frame", Head(b.to.frame).id, how)
    PROVE  LET id == Head(b.to.frame).id
               n == Answer(id, how)
           IN  /\ Wired(c) /\ Between(c) /\ c.page = b.page /\ c.frame = Served(b.frame, id)
               /\ c.to.frame = Tail(b.to.frame) /\ c.to.page = Append(b.to.page, n)
               /\ n \in Messages /\ id \notin InTransit(b.page, Tail(b.to.frame))
<1> DEFINE y == b.frame
           x == b.page
           q == b.to.frame
           p == b.to.page
           l == b.log.frame
           id == Head(q).id
           e == [b EXCEPT !.to["frame"] = Tail(@)]
           u == Served(y, id)
           n == Answer(id, how)
<1>0. "frame" \in Sides /\ Channel!Other("frame") = "page"
  BY DEF Sides, Channel!Sides, Channel!Other
<1>1. /\ y \in Windows /\ x \in Windows /\ p \in Queues /\ q \in Queues /\ l \in Logs
  BY <1>0, Parts
<1>2. Flows(y, x, q, p) /\ EndsOf(y, l)
  BY <1>0, BetweenSides
<1>3. Tail(q) \in Queues /\ id \in Int /\ Head(q).kind # "ready"
  <2>1. Tail(q) \in Queues /\ Head(q) \in Messages
    BY <1>1, Taken
  <2> QED
    BY <2>1 DEF Messages
<1>4. /\ Flows(y, x, Tail(q), p) /\ y.ready = TRUE
      /\ id \notin InTransit(x, Tail(q)) /\ id < x.s_curTranId /\ id \notin Ids(p, "answer")
  <2> HIDE DEF x, y, p
  <2>1. q # <<>> /\ Head(q).kind # "ready" /\ Head(q).kind = "request"
    BY <1>3
  <2> HIDE DEF q
  <2> QED
    BY <1>1, <1>2, <2>1, FlowsTake DEF id
<1>5. e = Changed(b, "frame", y, Tail(q), p, l)
  <2>1. e = [b EXCEPT !.to["frame"] = Tail(q)]
    OBVIOUS
  <2> HIDE DEF e
  <2> QED
    BY <1>0, <2>1, QueueChanges
<1>6. Wired(e) /\ e.frame = y /\ e.to.frame = Tail(q) /\ e.to.page = p /\ e.log.frame = l
  <2> DEFINE h == Tail(q)
  <2>1. h \in Queues /\ e = Changed(b, "frame", y, h, p, l)
    BY <1>3, <1>5
  <2> HIDE DEF h, y, p, l, e
  <2>2. Wired(e) /\ e.frame = y /\ e.to.frame = h /\ e.to.page = p /\ e.log.frame = l
    BY <1>0, <1>1, <2>1, Changes
  <2> QED
    BY <2>2 DEF h
<1>7. u \in Windows /\ n \in Messages
  BY <1>0, <1>3, <1>6, Completes
<1>8. Channel!complete(e, "frame", id, how) = Changed(e, "frame", Waiting(u, n), Tail(q), Going(u, p, n), l)
  <2> HIDE DEF e
  <2> QED
    BY <1>0, <1>3, <1>6, Completes
<1>9. /\ u.ready = TRUE /\ u.registered = y.registered /\ u.pendingQueue = y.pendingQueue
      /\ u.outTbl = y.outTbl /\ u.s_transIds = y.s_transIds /\ u.s_curTranId = y.s_curTranId
  BY <1>1, <1>4 DEF Served, Windows
<1>10. Face(u) = Face(y)
  BY <1>1 DEF Served, Windows, Face
<1>11. n.kind = "answer" /\ n.id = id
  BY DEF Answer, Channel!Message
<1> HIDE DEF u, n
<1>12. Waiting(u, n) = u /\ Going(u, p, n) = Append(p, n)
  BY <1>9 DEF Waiting, Going
<1>13. c = Changed(b, "frame", u, Tail(q), Append(p, n), l)
  <2>1. c = Changed(e, "frame", u, Tail(q), Append(p, n), l)
    BY <1>8, <1>12, SameEnds
  <2> HIDE DEF e, q, p
  <2> QED
    BY <1>0, <1>5, <2>1, ChangedTwice
<1>14. Append(p, n) \in Queues
  BY <1>1, <1>7, Appended
<1>15. Flows(u, x, Tail(q), Append(p, n))
  <2>1. Flows(y, x, Tail(q), Append(p, n))
    <3> DEFINE h == Tail(q)
    <3>1. h \in Queues /\ Flows(y, x, h, p) /\ n \in Messages /\ n.id # 0 /\ n.id < x.s_curTranId
          /\ n.id \notin InTransit(x, h) /\ n.id \notin Ids(p, "answer")
      BY <1>3, <1>4, <1>7, <1>11
    <3> HIDE DEF x, y, p, q, h
    <3>2. Flows(y, x, h, Append(p, n))
      BY <1>1, <1>4, <1>11, <3>1, FlowsAnswer
    <3> QED
      BY <3>2 DEF h
  <2> HIDE DEF x, y, p, q
  <2> QED
    BY <1>9, <1>10, <2>1, FlowsSame
<1>16. EndsOf(u, l)
  <2>1. y.ready = TRUE => y.registered = FALSE /\ y.pendingQueue = <<>>
    BY <1>2 DEF EndsOf
  <2> HIDE DEF y, l
  <2> QED
    BY <1>2, <1>4, <1>9, <2>1, EndsKept
<1>17. Wired(c) /\ Between(c) /\ c.page = x /\ c.frame = u /\ c.to.frame = Tail(q) /\ c.to.page = Append(p, n)
  <2>1. Flows(u, b[Channel!Other("frame")], Tail(q), Append(p, n))
    BY <1>0, <1>15
  <2> DEFINE g == Append(p, n)
             h == Tail(q)
  <2>2. h \in Queues /\ g \in Queues /\ c = Changed(b, "frame", u, h, g, l)
    BY <1>3, <1>13, <1>14
  <2>4. Flows(u, b[Channel!Other("frame")], h, g)
    BY <2>1
  <2> HIDE DEF g, h, l
  <2>3. Wired(c) /\ Between(c) /\ c.page = b.page /\ c.frame = u /\ c.to.frame = h /\ c.to.page = g
    BY <1>0, <1>1, <1>7, <1>16, <2>2, <2>4, BetweenChanged
  <2> QED
    BY <2>3, Zenon DEF g, h
<1> QED
  BY <1>4, <1>7, <1>17, Zenon DEF u, n
--------------------------------------------------------------------------------
\* What is answered, and that it is set.
IsAnswered(s, c, how) ==
    LET m == Head(s.ch.to.frame)
        n == Answer(m.id, how)
    IN  /\ Wired(c) /\ Between(c) /\ c.page = s.ch.page /\ c.frame = Served(s.ch.frame, m.id)
        /\ c.to.frame = Tail(s.ch.to.frame) /\ c.to.page = Append(s.ch.to.page, n)
        /\ n \in Messages /\ m.id \notin InTransit(s.ch.page, Tail(s.ch.to.frame))

\* The frame answers with what it has; setState puts back what was saved.
LEMMA AnswerIsGood ==
    ASSUME NEW s, FrameGood(s), s.ch.to.frame # <<>>, Head(s.ch.to.frame).kind = "request",
           NEW how \in Int, how = -1 \/ how = s.made, NEW c, IsAnswered(s, c, how),
           NEW t, DOMAIN t = DOMAIN s, t.ch = c, t.asked = s.asked,
           t.sop = s.sop, t.saves = s.saves, t.inputs = s.inputs, t.loaded = s.loaded, t.tries = s.tries,
           t.input = s.input, t.sent = s.sent, t.clicks = s.clicks, t.worked = s.worked,
           IF Head(s.ch.to.frame).arg = "setState" THEN t.made = 1 /\ t.restored = TRUE
           ELSE t.made = s.made /\ t.restored = s.restored
    PROVE  FrameGood(t)
<1> DEFINE x == s.ch.page
           y == s.ch.frame
           q == s.ch.to.frame
           p == s.ch.to.page
           m == Head(q)
           n == Answer(m.id, how)
           sets == m.arg = "setState"
<1>1. /\ FrameTyped(s) /\ Restores(s, y) /\ Restored(s) /\ Counted(s) /\ SentGood(s) /\ Restorable(s) /\ Told(s)
      /\ s.made \in Int /\ s.restored \in BOOLEAN /\ s.worked \in Int /\ s.sop \in BOOLEAN /\ s.saves \in BOOLEAN
  BY Fields
<1>2. Known(x, y, q, p, s.asked)
  BY <1>1 DEF Told
<1>3. x \in Windows /\ y \in Windows /\ q \in Queues /\ p \in Queues
  BY <1>1 DEF FrameTyped, Wired, Sides, Channel!Sides
<1>4. m \in In(q) /\ m \in Messages /\ In(q) = In(Tail(q)) \cup {m} /\ m.kind = "request"
  BY <1>3, Taken
<1>5. Travels(x, q) = Travels(x, Tail(q)) \cup {m}
  BY <1>4 DEF Travels
<1>6. n \in Messages /\ n.kind = "answer" /\ n.id = m.id /\ n.arg = how
  BY DEF Answer, Channel!Message, IsAnswered
<1>7. c.page = x /\ c.frame = Served(y, m.id) /\ c.to.frame = Tail(q) /\ c.to.page = Append(p, n)
      /\ m.id \notin InTransit(x, Tail(q)) /\ Wired(c) /\ Between(c)
  BY DEF IsAnswered
<1>8. In(Append(p, n)) = In(p) \cup {n}
  BY <1>3, <1>6, Appended
<1>9. PICK r \in s.asked : r.id = m.id /\ r.method = m.arg
  BY <1>2, <1>4 DEF Known, Travels
<1>10. c.frame.pendingQueue = y.pendingQueue
  BY <1>3, <1>7 DEF Served, Windows
<1>11. c.frame.bound = y.bound
  BY <1>3, <1>7 DEF Served, Windows
<1> HIDE DEF n, m
<1>12. s.sop = FALSE
  BY <1>1, <1>9 DEF Restores
<1>13. sets => s.restored = FALSE
  BY <1>1, <1>4, <1>5 DEF Restored, SetStates
<1>14. sets <=> m \in SetStates
  BY <1>4 DEF SetStates
<1>16. (sets => t.made = 1 /\ t.restored = TRUE) /\ (~sets => t.made = s.made /\ t.restored = s.restored)
  BY DEF m
<1>15. t.restored \in BOOLEAN /\ t.made \in Int
  <2>1. t.made = 1 \/ t.made = s.made
    BY <1>16
  <2>2. t.restored = TRUE \/ t.restored = s.restored
    BY <1>16
  <2>3. t.made \in Int
    BY <1>1, <2>1
  <2> QED
    BY <1>1, <2>2, <2>3
<1>17. Restores(t, t.ch.frame)
  <2>1. s.restored = FALSE => s.saves = TRUE
    BY <1>1 DEF Restores
  <2>2. t.loaded = FALSE => c.frame.bound = FALSE
    BY <1>1, <1>11 DEF Restores
  <2>3. t.tries \in 0 .. MaxTries /\ (t.tries > 0 => t.sop = TRUE /\ t.saves = TRUE /\ t.restored = FALSE)
    BY <1>1, <1>12 DEF Restores
  <2>4. t.restored = FALSE => t.saves = TRUE
    BY <1>1, <1>15, <1>16, <2>1
  <2>5. t.made >= 0 /\ t.worked >= 0 /\ t.made <= t.worked + 1 /\ (t.restored = TRUE /\ t.saves = TRUE => t.made >= 1)
    BY <1>1, <1>16 DEF Restores
  <2> QED
    BY <1>12, <2>2, <2>3, <2>4, <2>5 DEF Restores
<1>18. Restored(t)
  <2>1. ASSUME sets, NEW z \in Travels(x, Tail(q)) \cap SetStates
        PROVE  FALSE
    <3>1. z \in Travels(x, q) /\ z.kind = "request" /\ z.arg = "setState"
      BY <1>5, <2>1 DEF SetStates
    <3>2. PICK v \in s.asked : v.id = z.id /\ v.method = "setState"
      BY <1>2, <3>1 DEF Known
    <3>3. v = r
      BY <1>2, <1>9, <2>1, <3>2 DEF Known
    <3>4. z.id \in InTransit(x, Tail(q))
      BY <2>1, <3>1 DEF InTransit, Ids, Travels
    <3> QED
      BY <1>7, <1>9, <3>2, <3>3, <3>4
  <2>2. ~sets => t.restored = s.restored
    BY <1>16
  <2> QED
    BY <1>1, <1>5, <1>7, <2>1, <2>2 DEF Restored
<1>19. Restorable(t)
  <2>1. t.restored = FALSE => s.restored = FALSE /\ m \notin SetStates
    BY <1>14, <1>16
  <2> QED
    BY <1>1, <1>5, <1>7, <2>1 DEF Restorable
<1>20. Counted(t) /\ SentGood(t)
  <2>1. Counted(t)
    BY <1>1 DEF Counted, LastWaits
  <2>2. SentGood(t)
    BY <1>1 DEF SentGood, LastWaits
  <2> QED
    BY <2>1, <2>2
<1>21. FrameTyped(t)
  BY <1>1, <1>7, <1>15 DEF FrameTyped
<1>22. Known(c.page, c.frame, c.to.frame, c.to.page, t.asked)
  <2>1. \A z \in In(Append(p, n)) :
          IF z.kind = "answer" THEN z.arg \in Int /\ \E v \in s.asked : v.id = z.id ELSE z.kind = "ready"
    BY <1>2, <1>6, <1>8, <1>9 DEF Known
  <2>2. \A z \in Travels(x, Tail(q)) :
          IF z.kind = "request" THEN \E v \in s.asked : v.id = z.id /\ v.method = z.arg ELSE z.kind = "ready"
    BY <1>2, <1>5 DEF Known
  <2> QED
    BY <1>2, <1>7, <1>10, <2>1, <2>2 DEF Known
<1>23. ASSUME NEW z \in s.asked, z.click.ordered = TRUE
       PROVE  Waits(z, x, Tail(q), Append(p, n), t.restored, t.saves, t.made)
  <2> DEFINE R == RequestsWith(z.id)
  <2>1. Waits(z, x, q, p, s.restored, s.saves, s.made)
    BY <1>1, <1>23 DEF Told
  <2>2. z.click.made \in Int /\ z.answer \in Int
    BY <1>1 DEF FrameTyped, Asks, Clicks
  <2>3. ASSUME z.method = "getGrade"
        PROVE  /\ z.click.made <= t.made /\ (t.restored = FALSE => z.click.made = 0)
               /\ In(x.pendingQueue) \cap R # {} => t.restored = TRUE
               /\ In(Tail(q)) \cap R # {} /\ t.restored = FALSE => Before(Tail(q), SetStates, R)
    <3>1. /\ z.click.made <= s.made /\ (s.restored = FALSE => z.click.made = 0)
          /\ In(x.pendingQueue) \cap R # {} => s.restored = TRUE
          /\ In(q) \cap R # {} /\ s.restored = FALSE => Before(q, SetStates, R)
      BY <2>1, <2>3 DEF Waits
    <3>2. z.click.made <= t.made /\ (t.restored = FALSE => z.click.made = 0)
      BY <1>1, <1>13, <1>16, <2>2, <3>1
    <3>3. In(x.pendingQueue) \cap R # {} => t.restored = TRUE
      BY <1>16, <3>1
    <3>4. ASSUME In(Tail(q)) \cap R # {}, t.restored = FALSE
          PROVE  Before(Tail(q), SetStates, R)
      <4>1. s.restored = FALSE /\ m \notin SetStates
        BY <1>14, <1>16, <3>4
      <4>2. Before(q, SetStates, R)
        BY <1>4, <3>1, <3>4, <4>1
      <4>3. q \in Queues /\ q # <<>> /\ Head(q) \notin SetStates
        BY <1>3, <4>1 DEF m
      <4> HIDE DEF R, q
      <4> QED
        BY <4>2, <4>3, TakenBefore
    <3> QED
      BY <3>2, <3>3, <3>4
  <2>4. ASSUME z.method = "getState"
        PROVE  s.saves = TRUE /\ t.restored = TRUE /\ z.click.made <= z.answer /\ z.answer <= t.made /\ z.answer >= 1
    BY <1>13, <1>16, <2>1, <2>4 DEF Waits
  <2>5. ASSUME NEW a \in In(p), a.kind = "answer", a.id = z.id, a.arg # -1, z.method # "setState"
        PROVE  /\ t.restored = TRUE /\ a.arg <= t.made
               /\ z.method = "getGrade" => z.click.made <= a.arg /\ (s.saves = TRUE => a.arg >= 1)
               /\ z.method = "getState" => z.answer <= a.arg
    <3>1. s.restored = TRUE
      BY <2>1, <2>5 DEF Waits
    <3>2. t.restored = TRUE /\ t.made = s.made
      BY <1>13, <1>16, <3>1
    <3> QED
      BY <2>1, <2>5, <3>2 DEF Waits
  <2>6. ASSUME n.id = z.id, n.arg # -1, z.method # "setState"
        PROVE  /\ t.restored = TRUE /\ n.arg <= t.made
               /\ z.method = "getGrade" => z.click.made <= n.arg /\ (s.saves = TRUE => n.arg >= 1)
               /\ z.method = "getState" => z.answer <= n.arg
    <3>1. z = r
      BY <1>2, <1>6, <1>9, <2>6 DEF Known
    <3>2. ~sets /\ how = s.made /\ z.method = m.arg
      BY <1>6, <1>9, <2>6, <3>1
    <3>3. m \in R
      BY <1>4, <1>6, <2>6 DEF RequestsWith
    <3>4. ASSUME z.method = "getGrade", s.restored = FALSE
          PROVE  FALSE
      <4>1. Before(q, SetStates, R)
        BY <1>4, <2>1, <3>3, <3>4 DEF Waits
      <4>2. q \in Queues /\ q # <<>> /\ Head(q) \in R
        BY <1>3, <3>3 DEF m
      <4> HIDE DEF R, q
      <4> QED
        BY <4>1, <4>2, TakenBefore
    <3>5. z.method = "getGrade" \/ z.method = "getState"
      BY <1>1, <2>6 DEF FrameTyped, Asks, Methods
    <3>6. s.restored = TRUE
      BY <1>1, <2>1, <3>4, <3>5 DEF Waits
    <3>7. s.saves = TRUE => s.made >= 1
      BY <1>1, <3>6 DEF Restores
    <3>8. t.restored = TRUE /\ t.made = s.made /\ n.arg = s.made
      BY <1>6, <1>16, <3>2, <3>6
    <3> QED
      BY <1>1, <2>1, <3>7, <3>8 DEF Waits
  <2> HIDE DEF R
  <2>7. \A a \in In(Append(p, n)) : a.kind = "answer" /\ a.id = z.id /\ a.arg # -1 /\ z.method # "setState" =>
          /\ t.restored = TRUE /\ a.arg <= t.made
          /\ z.method = "getGrade" => z.click.made <= a.arg /\ (s.saves = TRUE => a.arg >= 1)
          /\ z.method = "getState" => z.answer <= a.arg
    BY <1>8, <2>5, <2>6
  <2> QED
    BY <2>3, <2>4, <2>7 DEF Waits, R
<1>24. Told(t)
  BY <1>7, <1>22, <1>23 DEF Told
<1> QED
  BY <1>7, <1>17, <1>18, <1>19, <1>20, <1>21, <1>24 DEF FrameGood, AlmostGood
--------------------------------------------------------------------------------
\* A message is taken from a queue of the channel.
LEMMA ReceivedIs ==
    ASSUME FrameGood(js), NEW w \in Sides
    PROVE  LET s == Frame!Received(w)
           IN  /\ s.ch = [js.ch EXCEPT !.to[w] = Tail(@)]
               /\ DOMAIN s = DOMAIN js /\ s.sop = js.sop /\ s.saves = js.saves /\ s.inputs = js.inputs
               /\ s.loaded = js.loaded /\ s.made = js.made /\ s.restored = js.restored /\ s.tries = js.tries
               /\ s.asked = js.asked /\ s.input = js.input /\ s.sent = js.sent /\ s.clicks = js.clicks
               /\ s.worked = js.worked
               /\ \A c : [s EXCEPT !.ch = c] = [js EXCEPT !.ch = c]
<1> DEFINE e == [js.ch EXCEPT !.to[w] = Tail(@)]
<1>1. FrameTyped(js)
  BY Fields
<1>2. Frame!Received(w) = [js EXCEPT !.ch = e]
  BY DEF Frame!Received
<1> HIDE DEF e
<1>3. LET s == [js EXCEPT !.ch = e]
      IN  /\ s.ch = e
          /\ DOMAIN s = DOMAIN js /\ s.sop = js.sop /\ s.saves = js.saves /\ s.inputs = js.inputs
          /\ s.loaded = js.loaded /\ s.made = js.made /\ s.restored = js.restored /\ s.tries = js.tries
          /\ s.asked = js.asked /\ s.input = js.input /\ s.sent = js.sent /\ s.clicks = js.clicks
          /\ s.worked = js.worked
  BY <1>1 DEF FrameTyped
<1>4. \A c : [[js EXCEPT !.ch = e] EXCEPT !.ch = c] = [js EXCEPT !.ch = c]
  OBVIOUS
<1> QED
  BY <1>2, <1>3, <1>4 DEF e

\* What the frame receives keeps the invariant.
LEMMA FrameReceivesIsGood ==
    ASSUME FrameGood(js), Frame!FrameReceives
    PROVE  FrameGood(js')
<1> DEFINE s == Frame!Received("frame")
           b == js.ch
           q == b.to.frame
           m == Head(q)
           e == [b EXCEPT !.to["frame"] = Tail(@)]
<1>0. "frame" \in Sides /\ Channel!Other("frame") = "page"
  BY DEF Sides, Channel!Sides, Channel!Other
<1>1. /\ FrameTyped(js) /\ Wired(b) /\ Between(b) /\ js.made \in Int /\ q # <<>>
      /\ Known(b.page, b.frame, q, b.to.page, js.asked)
  <2>1. Known(b.page, b.frame, q, b.to.page, js.asked)
    BY Fields DEF Told
  <2> QED
    BY <2>1, Fields DEF Frame!FrameReceives
<1>2. b.page \in Windows /\ b.frame \in Windows /\ q \in Queues /\ b.to.page \in Queues
  BY <1>1 DEF Wired, Sides, Channel!Sides
<1>3. m \in In(q) /\ m \in Messages
  BY <1>1, <1>2, Taken
<1>4. m.kind = "ready" \/ (m.kind = "request" /\ m.id # 0)
  BY <1>1, <1>3 DEF Known, Travels
<1>5. m.kind = "request" => b.frame.bound = TRUE
  <2>1. Flows(b.frame, b.page, q, b.to.page)
    BY <1>0, <1>1, BetweenSides
  <2>2. ReadyGood(b.frame, b.page, q)
    BY <2>1 DEF Flows
  <2> SUFFICES ASSUME m.kind = "request"
               PROVE  b.frame.bound = TRUE
    OBVIOUS
  <2>3. Head(q).kind # "ready"
    OBVIOUS
  <2>4. b.frame.ready # FALSE
    BY <1>1, <2>2, <2>3 DEF ReadyGood
  <2>5. b.frame.ready = TRUE
    BY <1>2, <2>4 DEF Windows
  <2> QED
    BY <2>2, <2>5 DEF ReadyGood
<1>6. /\ s.ch = e /\ DOMAIN s = DOMAIN js /\ s.sop = js.sop /\ s.saves = js.saves /\ s.inputs = js.inputs
      /\ s.loaded = js.loaded /\ s.made = js.made /\ s.restored = js.restored /\ s.tries = js.tries
      /\ s.asked = js.asked /\ s.input = js.input /\ s.sent = js.sent /\ s.clicks = js.clicks
      /\ s.worked = js.worked
      /\ \A c : [s EXCEPT !.ch = c] = [js EXCEPT !.ch = c]
  BY <1>0, ReceivedIs
<1>7. CASE m.kind = "ready"
  <2> DEFINE c == Frame!Channel!s_onMessage(e, "frame", m, "returns")
  <2>1. js' = [s EXCEPT !.ch = Frame!Channel!s_onMessage(@, "frame", m, "returns")]
    BY <1>7 DEF Frame!FrameReceives
  <2>2. [s EXCEPT !.ch = Frame!Channel!s_onMessage(@, "frame", m, "returns")] = [s EXCEPT !.ch = c]
    BY <1>6
  <2>3. js' = [js EXCEPT !.ch = c]
    BY <1>6, <2>1, <2>2
  <2>4. FrameGood([js EXCEPT !.ch = c])
    BY <1>0, <1>1, <1>7, HandshakeKeeps
  <2> QED
    BY <2>3, <2>4
<1>8. CASE m.kind = "request" /\ m.id # 0
  <2>1. PICK throws \in BOOLEAN : (m.arg = "setState" => ~throws) /\ js' = Frame!frameServes(s, m, throws)
    BY <1>5, <1>8 DEF Frame!FrameReceives
  <2> DEFINE how == IF throws THEN -1 ELSE js.made
             c == Frame!Channel!complete(e, "frame", m.id, how)
  <2>2. how \in Int /\ (how = -1 \/ how = js.made)
    BY <1>1
  <2>3. how \in Args
    <3> HIDE DEF how
    <3> QED
      BY <2>2 DEF Args
  <2>4. IsAnswered(js, c, how)
    <3> HIDE DEF how
    <3> QED
      BY <1>1, <1>8, <2>3, AnswerChannel, Zenon DEF IsAnswered
  <2>5. CASE throws
    <3>1. js' = [s EXCEPT !.ch = Frame!Channel!complete(@, "frame", m.id, -1), !.failed = TRUE]
      BY <2>1, <2>5 DEF Frame!frameServes, Frame!Thrown
    <3>2. c = Frame!Channel!complete(s.ch, "frame", m.id, -1)
      BY <1>6, <2>5
    <3> HIDE DEF c, s, e
    <3>3. js' = [s EXCEPT !.ch = c, !.failed = TRUE]
      BY <3>1, <3>2
    <3>4. /\ DOMAIN js' = DOMAIN js /\ js'.ch = c /\ js'.asked = js.asked
          /\ js'.sop = js.sop /\ js'.saves = js.saves /\ js'.inputs = js.inputs /\ js'.loaded = js.loaded
          /\ js'.tries = js.tries /\ js'.input = js.input /\ js'.sent = js.sent /\ js'.clicks = js.clicks
          /\ js'.worked = js.worked /\ js'.made = js.made /\ js'.restored = js.restored
      BY <1>1, <1>6, <3>3 DEF FrameTyped
    <3> HIDE DEF how
    <3> QED
      BY <1>1, <1>8, <2>1, <2>2, <2>4, <2>5, <3>4, AnswerIsGood
  <2>6. CASE ~throws
    <3> DEFINE now == IF m.arg = "setState" THEN [s EXCEPT !.made = 1, !.restored = TRUE] ELSE s
    <3>1. js' = [now EXCEPT !.ch = Frame!Channel!complete(@, "frame", m.id, s.made)]
      BY <2>1, <2>6 DEF Frame!frameServes, Frame!setState
    <3> HIDE DEF s
    <3>2. /\ DOMAIN now = DOMAIN js /\ now.ch = e /\ now.asked = js.asked
          /\ now.sop = js.sop /\ now.saves = js.saves /\ now.inputs = js.inputs /\ now.loaded = js.loaded
          /\ now.tries = js.tries /\ now.input = js.input /\ now.sent = js.sent /\ now.clicks = js.clicks
          /\ now.worked = js.worked
          /\ IF m.arg = "setState" THEN now.made = 1 /\ now.restored = TRUE
             ELSE now.made = js.made /\ now.restored = js.restored
      <4> HIDE DEF e
      <4>1. CASE m.arg = "setState"
        <5>1. now = [s EXCEPT !.made = 1, !.restored = TRUE]
          BY <4>1
        <5> HIDE DEF now
        <5> QED
          BY <1>1, <1>6, <4>1, <5>1 DEF FrameTyped
      <4>2. CASE m.arg # "setState"
        <5>1. now = s
          BY <4>2
        <5> HIDE DEF now
        <5> QED
          BY <1>6, <4>2, <5>1
      <4> QED
        BY <4>1, <4>2
    <3> HIDE DEF now
    <3>3. c = Frame!Channel!complete(now.ch, "frame", m.id, s.made)
      BY <1>6, <2>6, <3>2
    <3> HIDE DEF c, e
    <3>4. js' = [now EXCEPT !.ch = c]
      BY <3>1, <3>3
    <3>5. /\ DOMAIN js' = DOMAIN js /\ js'.ch = c /\ js'.asked = js.asked
          /\ js'.sop = js.sop /\ js'.saves = js.saves /\ js'.inputs = js.inputs /\ js'.loaded = js.loaded
          /\ js'.tries = js.tries /\ js'.input = js.input /\ js'.sent = js.sent /\ js'.clicks = js.clicks
          /\ js'.worked = js.worked /\ js'.made = now.made /\ js'.restored = now.restored
      BY <1>1, <3>2, <3>4 DEF FrameTyped
    <3>6. IF m.arg = "setState" THEN js'.made = 1 /\ js'.restored = TRUE
          ELSE js'.made = js.made /\ js'.restored = js.restored
      BY <3>2, <3>5
    <3> HIDE DEF how
    <3> QED
      BY <1>1, <1>8, <2>2, <2>4, <3>5, <3>6, AnswerIsGood
  <2> QED
    BY <2>1, <2>5, <2>6
<1> QED
  BY <1>4, <1>7, <1>8
--------------------------------------------------------------------------------
\* The page takes an answer.
LEMMA TakenIsGood ==
    ASSUME FrameGood(js), js.ch.to.page # <<>>, Head(js.ch.to.page).kind = "answer"
    PROVE  /\ FrameGood(Frame!Received("page"))
           /\ Flows(js.ch.page, js.ch.frame, js.ch.to.page, js.ch.to.frame)
<1> DEFINE s == Frame!Received("page")
           b == js.ch
           x == b.page
           y == b.frame
           p == b.to.page
           q == b.to.frame
           l == b.log.page
           h == Tail(p)
           e == [b EXCEPT !.to["page"] = Tail(@)]
<1>0. "page" \in Sides /\ Channel!Other("page") = "frame"
  BY DEF Sides, Channel!Sides, Channel!Other
<1>1. /\ FrameTyped(js) /\ Wired(b) /\ Between(b) /\ b.frame.pendingQueue = <<>>
      /\ (js.loaded = FALSE => b.frame.bound = FALSE)
  BY DEF FrameGood, AlmostGood, FrameTyped, Told, Known, Restores
<1>2. x \in Windows /\ y \in Windows /\ q \in Queues /\ p \in Queues /\ l \in Logs
  BY <1>0, <1>1, Parts
<1>3. Flows(x, y, p, q) /\ EndsOf(x, l)
  BY <1>0, <1>1, BetweenSides
<1>4. Flows(x, y, h, q) /\ h \in Queues
  <2>1. Head(p).kind # "ready"
    OBVIOUS
  <2>2. h \in Queues
    BY <1>2, Taken
  <2>4. p # <<>>
    OBVIOUS
  <2> HIDE DEF x, y, p, q
  <2>3. Flows(x, y, Tail(p), q)
    BY <1>2, <1>3, <2>1, <2>4, FlowsTake
  <2> QED
    BY <2>2, <2>3
<1>5. s = [js EXCEPT !.ch = e]
  BY DEF Frame!Received
<1>6. e = Changed(b, "page", x, h, q, l)
  <2>1. e = [b EXCEPT !.to["page"] = Tail(p)]
    OBVIOUS
  <2>2. Wired(b)
    BY <1>1
  <2> HIDE DEF e, b
  <2> QED
    BY <1>0, <2>1, <2>2, QueueChanges
<1> HIDE DEF e, h
<1>7. Wired(e) /\ Between(e) /\ e.page = x /\ e.frame = y /\ e.to.page = h /\ e.to.frame = q
  <2>1. Flows(x, b[Channel!Other("page")], h, q)
    BY <1>0, <1>4
  <2> HIDE DEF x, q, l
  <2> QED
    BY <1>0, <1>1, <1>2, <1>3, <1>4, <1>6, <2>1, BetweenChanged DEF y
<1>8. Nearer(b, e)
  <2>1. "page" # "frame" /\ e.to.page = Tail(b.to.page) /\ e.to[Channel!Other("page")] = b.to[Channel!Other("page")]
    BY <1>0, <1>7 DEF h
  <2>2. b.to["page"] # <<>> /\ e.to["page"] = Tail(b.to["page"])
    BY <2>1
  <2> QED
    BY <1>0, <1>1, <1>7, <2>1, <2>2, DropIsNearer
<1>9. js.loaded = FALSE => e.frame.bound = FALSE
  BY <1>1, <1>7
<1>10. FrameGood([js EXCEPT !.ch = e])
  BY <1>7, <1>8, <1>9, ChannelOnly
<1> QED
  BY <1>3, <1>5, <1>10

\* Who waited has its answer.
LEMMA HeardIsGood ==
    ASSUME NEW s, FrameGood(s), NEW r \in s.asked,
           \A m \in Travels(s.ch.page, s.ch.to.frame) : m.kind = "request" => m.id # r.id,
           \A m \in In(s.ch.to.page) : m.kind = "answer" => m.id # r.id,
           NEW t, t = [s EXCEPT !.asked = @ \ {r}]
    PROVE  FrameGood(t) /\ (r.method # "setState" => Spare(t)) /\ \A z \in t.asked : z.id # r.id
<1>1. /\ FrameTyped(s) /\ Told(s) /\ Between(s.ch) /\ Restored(s) /\ Restores(s, s.ch.frame)
      /\ Counted(s) /\ SentGood(s) /\ Restorable(s) /\ s.asked \subseteq Asks /\ IsFiniteSet(s.asked)
  BY Fields
<1> DEFINE A == s.asked \ {r}
<1>2. /\ DOMAIN t = DOMAIN s /\ t.ch = s.ch /\ t.asked = A
      /\ t.sop = s.sop /\ t.saves = s.saves /\ t.inputs = s.inputs /\ t.restored = s.restored
      /\ t.loaded = s.loaded /\ t.made = s.made /\ t.tries = s.tries /\ t.clicks = s.clicks /\ t.worked = s.worked
      /\ t.input = s.input /\ t.sent = s.sent
  BY <1>1 DEF FrameTyped
<1>3. A \subseteq s.asked /\ IsFiniteSet(A)
  BY <1>1, FS_Subset
<1>4. FrameTyped(t)
  BY <1>1, <1>2, <1>3 DEF FrameTyped
<1>5. Restores(t, t.ch.frame)
  BY <1>1, <1>2, <1>3 DEF Restores
<1>6. Restored(t) /\ Restorable(t)
  BY <1>1, <1>2 DEF Restored, Restorable
<1>7. SentGood(t)
  BY <1>1, <1>2 DEF SentGood, LastWaits
<1>8. Counted(t) /\ (r.method # "setState" => Spare(t))
  <2>1. /\ Len(s.sent) \in Nat /\ s.clicks \in Int
        /\ Cardinality(Graded(s.asked)) \in Nat /\ Cardinality(Graded(A)) \in Nat
    BY <1>1, <1>3, GradedNumber DEF FrameTyped
  <2>2. r.method = "setState" => Graded(A) = Graded(s.asked)
    BY <1>1, GradedNumber
  <2>3. r.method # "setState" => Cardinality(Graded(A)) = Cardinality(Graded(s.asked)) - 1
    BY <1>1, GradedNumber
  <2>4. LastWaits(t) = LastWaits(s)
    BY <1>2 DEF LastWaits
  <2> HIDE DEF A
  <2>5. CASE r.method = "setState"
    BY <1>1, <1>2, <2>2, <2>4, <2>5 DEF Counted
  <2>6. CASE r.method # "setState"
    <3>1. LastWaits(s) => Len(s.sent) + Cardinality(Graded(A)) + 1 <= s.clicks
      BY <1>1, <2>1, <2>3, <2>6 DEF Counted
    <3>2. Spare(t)
      BY <1>2, <2>4, <3>1 DEF Spare
    <3>3. Counted(t)
      <4>1. LastWaits(s) => Len(s.sent) + Cardinality(Graded(A)) <= s.clicks
        BY <2>1, <3>1
      <4> QED
        BY <1>2, <2>4, <4>1 DEF Counted
    <3> QED
      BY <3>2, <3>3
  <2> QED
    BY <2>5, <2>6
<1>9. Known(s.ch.page, s.ch.frame, s.ch.to.frame, s.ch.to.page, s.asked)
  BY <1>1 DEF Told
<1>10. Known(s.ch.page, s.ch.frame, s.ch.to.frame, s.ch.to.page, A)
  <2>1. \A z, v \in A : z.id = v.id \/ (z.method = "setState" /\ v.method = "setState") => z = v
    BY <1>9 DEF Known
  <2>2. \A m \in Travels(s.ch.page, s.ch.to.frame) :
          IF m.kind = "request" THEN \E z \in A : z.id = m.id /\ z.method = m.arg ELSE m.kind = "ready"
    BY <1>9 DEF Known
  <2>3. \A m \in In(s.ch.to.page) : IF m.kind = "answer" THEN m.arg \in Int /\ \E z \in A : z.id = m.id
                                     ELSE m.kind = "ready"
    BY <1>9 DEF Known
  <2> QED
    BY <1>9, <2>1, <2>2, <2>3 DEF Known
<1>11. Told(t)
  BY <1>1, <1>2, <1>3, <1>10 DEF Told
<1>12. \A z \in A : z.id # r.id
  BY <1>9 DEF Known
<1> QED
  BY <1>1, <1>2, <1>4, <1>5, <1>6, <1>7, <1>8, <1>11, <1>12 DEF FrameGood, AlmostGood

\* A call of the page ends.
LEMMA EndingIsGood ==
    ASSUME NEW s, FrameGood(s), NEW id \in s.ch.page.outTbl, \A r \in s.asked : r.id # id, NEW how \in Args,
           NEW c, c = Channel!ended(s.ch, "page", id, how)
    PROVE  FrameGood([s EXCEPT !.ch = c])
<1> DEFINE t == [s EXCEPT !.ch = c]
           b == s.ch
           x == b.page
           p == b.to.page
           q == b.to.frame
           l == b.log.page
           u == Ended(x, id)
           n == Noted(l, id, how)
<1>0. "page" \in Sides /\ Channel!Other("page") = "frame"
  BY DEF Sides, Channel!Sides, Channel!Other
<1>1. /\ FrameTyped(s) /\ Told(s) /\ Between(b) /\ Restored(s) /\ Restores(s, b.frame) /\ Wired(b)
      /\ Counted(s) /\ SentGood(s) /\ Restorable(s)
  BY Fields
<1>2. x \in Windows /\ b.frame \in Windows /\ q \in Queues /\ p \in Queues /\ l \in Logs
  BY <1>0, <1>1, Parts
<1>3. Flows(x, b.frame, p, q) /\ EndsOf(x, l) /\ id \in Int
  <2>1. id \in Int
    BY <1>2 DEF Windows
  <2> QED
    BY <1>0, <1>1, <2>1, BetweenSides
<1>4. u \in Windows /\ n \in Logs /\ c = Changed(b, "page", u, p, q, n)
  BY <1>0, <1>1, <1>3, Ends
<1>5. u.outTbl = x.outTbl \ {id} /\ u.pendingQueue = x.pendingQueue /\ u.s_curTranId = x.s_curTranId
  BY <1>2 DEF Ended, Windows
<1>6. Face(u) = Face(x)
  BY <1>2 DEF Ended, Windows, Face
<1>7. EndsOf(u, n)
  BY <1>2, <1>3, EndsEnded
<1> HIDE DEF u, n
<1>8. Flows(u, b.frame, p, q)
  <2> HIDE DEF x, p, q
  <2> QED
    BY <1>3, <1>5, <1>6, FlowsSame
<1>9. Wired(c) /\ Between(c) /\ c.page = u /\ c.frame = b.frame /\ c.to.page = p /\ c.to.frame = q
  <2>1. Flows(u, b[Channel!Other("page")], p, q)
    BY <1>0, <1>8
  <2> HIDE DEF p, q
  <2> QED
    BY <1>0, <1>1, <1>2, <1>4, <1>7, <2>1, BetweenChanged
<1>10. /\ DOMAIN t = DOMAIN s /\ t.ch = c /\ t.asked = s.asked
       /\ t.sop = s.sop /\ t.saves = s.saves /\ t.inputs = s.inputs /\ t.restored = s.restored
       /\ t.loaded = s.loaded /\ t.made = s.made /\ t.tries = s.tries /\ t.clicks = s.clicks /\ t.worked = s.worked
       /\ t.input = s.input /\ t.sent = s.sent
  BY <1>1 DEF FrameTyped
<1> HIDE DEF t
<1>11. FrameTyped(t)
  BY <1>1, <1>9, <1>10 DEF FrameTyped
<1>12. Restores(t, t.ch.frame)
  BY <1>1, <1>9, <1>10 DEF Restores
<1>13. Travels(u, q) = Travels(x, q)
  BY <1>5 DEF Travels
<1>14. Restored(t) /\ Restorable(t)
  <2> HIDE DEF x, q
  <2>1. Travels(t.ch.page, t.ch.to.frame) = Travels(s.ch.page, s.ch.to.frame)
    BY <1>9, <1>10, <1>13 DEF x, q
  <2> QED
    BY <1>1, <1>10, <2>1 DEF Restored, Restorable
<1>15. Counted(t)
  BY <1>1, <1>10 DEF Counted, LastWaits
<1>16. SentGood(t)
  BY <1>1, <1>10 DEF SentGood, LastWaits
<1>17. Known(u, b.frame, q, p, s.asked)
  <2>1. Known(x, b.frame, q, p, s.asked)
    BY <1>1 DEF Told
  <2> HIDE DEF x, q, p
  <2>2. \A r \in s.asked : r.id \in u.outTbl
    BY <1>5, <2>1 DEF Known
  <2> QED
    BY <1>5, <1>13, <2>1, <2>2 DEF Known
<1>18. ASSUME NEW r \in s.asked, r.click.ordered = TRUE
       PROVE  Waits(r, u, q, p, s.restored, s.saves, s.made)
  <2>1. Waits(r, x, q, p, s.restored, s.saves, s.made)
    BY <1>1, <1>18 DEF Told
  <2> QED
    BY <1>5, <2>1 DEF Waits
<1>19. Told(t)
  BY <1>9, <1>10, <1>17, <1>18 DEF Told
<1>20. Between(t.ch)
  BY <1>9, <1>10
<1> QED
  BY <1>11, <1>12, <1>14, <1>15, <1>16, <1>19, <1>20 DEF FrameGood, AlmostGood, t
--------------------------------------------------------------------------------
\* What the page does with the answer to r; id is that of another call that has not ended.
StillOpen(s, id) == id \in s.ch.page.outTbl /\ \A z \in s.asked : z.id # id

\* Another call is made: the first is still open.
LEMMA CallLeaves ==
    ASSUME NEW s, AlmostGood(s), NEW method \in Methods, NEW click, NEW answer, NEW id, StillOpen(s, id)
    PROVE  StillOpen(Frame!call(s, method, click, answer), id)
<1> DEFINE b == s.ch
           x == b.page
           k == Called(x, FALSE)
           m == Request(x, method)
           r == AskedFor(s, method, click, answer)
           t == Frame!call(s, method, click, answer)
           c == Channel!call(b, "page", method, FALSE)
<1>1. FrameTyped(s) /\ Wired(b) /\ Between(b) /\ x \in Windows /\ EndsOf(x, b.log.page)
  BY DEF AlmostGood, FrameTyped, Wired, Sides, Channel!Sides, Between
<1>2. t.ch = c
  BY <1>1, CallSends
<1>3. t.asked = s.asked \cup {r}
  BY <1>1, CallAsks
<1>4. c.page = Waiting(k, m)
  BY <1>1, CallChannel
<1>5. k \in Windows /\ k.outTbl = x.outTbl \cup {x.s_curTranId}
  BY <1>1, CallTypes
<1>6. r.id = x.s_curTranId
  BY DEF AskedFor, Frame!Asked
<1> HIDE DEF k, m, r, t, c
<1>7. c.page.outTbl = k.outTbl
  BY <1>4, <1>5, WaitingIs
<1>8. id \in x.outTbl /\ \A z \in s.asked : z.id # id
  BY DEF StillOpen
<1>9. id # x.s_curTranId
  BY <1>1, <1>8 DEF EndsOf, Windows
<1>10. id \in t.ch.page.outTbl
  BY <1>2, <1>5, <1>7, <1>8
<1>11. \A z \in t.asked : z.id # id
  BY <1>3, <1>6, <1>8, <1>9
<1> QED
  BY <1>10, <1>11 DEF StillOpen, t

\* The function that waited for an answer runs: it asks for the state, or sends the problem.
LEMMA SuccessIsGood ==
    ASSUME NEW s, FrameGood(s), NEW r \in Asks, NEW value \in Int, NEW id, StillOpen(s, id), s.sop = FALSE,
           r.method # "setState" => Spare(s),
           r.click.ordered = TRUE /\ r.method # "setState" =>
               /\ s.restored = TRUE /\ value <= s.made
               /\ r.method = "getGrade" => r.click.made <= value /\ (s.saves = TRUE => value >= 1)
               /\ r.method = "getState" => r.click.made <= r.answer /\ r.answer <= value /\ r.answer >= 1
    PROVE  LET u == Frame!success(s, r, value)
           IN  FrameGood(u) /\ StillOpen(u, id)
<1>1. /\ r.click \in Clicks /\ r.answer \in Int /\ r.method \in Methods
  BY DEF Asks
<1>2. FrameTyped(s) /\ AlmostGood(s) /\ Restorable(s) /\ s.saves \in BOOLEAN
  BY Fields DEF FrameGood
<1>3. ASSUME NEW answer \in Int, NEW state \in Int, MaySend(s, <<answer, state>>, r.click), Spare(s)
      PROVE  LET u == Frame!answered(s, answer, state, r.click)
             IN  FrameGood(u) /\ StillOpen(u, id)
  <2> DEFINE u == Frame!answered(s, answer, state, r.click)
             c == r.click
  <2>1. FrameGood(u)
    <3>1. MaySend(s, <<answer, state>>, c) /\ c \in Clicks
      BY <1>1, <1>3
    <3>2. FrameGood(Frame!answered(s, answer, state, c))
      <4> HIDE DEF c
      <4> QED
        BY <1>3, <3>1, AnsweredIsGood
    <3> QED
      BY <3>2
  <2>2. u.ch = s.ch /\ u.asked = s.asked
    BY <1>2 DEF FrameTyped, Frame!submit_internal, Frame!answered
  <2> HIDE DEF u
  <2>3. StillOpen(u, id)
    BY <2>2 DEF StillOpen
  <2> QED
    BY <2>1, <2>3 DEF u
<1>4. CASE r.method = "setState"
  <2>1. Frame!success(s, r, value) = s
    BY <1>4 DEF Frame!success
  <2> QED
    BY <2>1
<1>5. CASE r.method = "getGrade" /\ s.saves = TRUE
  <2> DEFINE c == r.click
             u == Frame!call(s, "getState", c, value)
  <2>1. Frame!success(s, r, value) = u
    BY <1>5 DEF Frame!success
  <2>2. MayCall(s, "getState", c, value)
    BY <1>5 DEF MayCall
  <2>3. c \in Clicks /\ "getState" \in Methods
    BY <1>1 DEF Methods
  <2> HIDE DEF c
  <2>4. AlmostGood(u) /\ Restorable(u)
    BY <1>2, <2>2, <2>3, CallIsGood
  <2>5. StillOpen(u, id)
    BY <1>2, <2>3, CallLeaves
  <2> HIDE DEF u
  <2> QED
    BY <2>1, <2>4, <2>5 DEF FrameGood
<1>6. CASE r.method = "getGrade" /\ s.saves = FALSE
  <2>1. Frame!success(s, r, value) = Frame!answered(s, value, value, r.click)
    BY <1>6 DEF Frame!success
  <2>2. MaySend(s, <<value, value>>, r.click)
    BY <1>6 DEF MaySend
  <2> QED
    BY <1>3, <1>6, <2>1, <2>2
<1>7. CASE r.method = "getState"
  <2>1. Frame!success(s, r, value) = Frame!answered(s, r.answer, value, r.click)
    BY <1>7 DEF Frame!success
  <2>2. MaySend(s, <<r.answer, value>>, r.click)
    <3> SUFFICES ASSUME r.click.ordered = TRUE
                 PROVE  r.click.made <= r.answer /\ r.answer <= value /\ r.answer >= 1
      BY DEF MaySend
    <3> QED
      BY <1>7
  <2> QED
    BY <1>1, <1>3, <1>7, <2>1, <2>2
<1> QED
  BY <1>1, <1>2, <1>4, <1>5, <1>6, <1>7 DEF Methods

\* An answer ends the call it is for.
LEMMA AnswerEnds ==
    ASSUME NEW s, NEW m \in Messages, m.kind = "answer", m.id # 0, m.id \in s.page.outTbl,
           s.page.outTbl \subseteq s.page.s_transIds
    PROVE  Frame!Channel!s_onMessage(s, "page", m, "returns") = Channel!ended(s, "page", m.id, m.arg)
<1>1. m.id \in s.page.s_transIds
  OBVIOUS
<1>2. Channel!s_onMessage(s, "page", m, "returns") = Channel!onMessage(s, "page", m, "returns")
  BY <1>1 DEF Channel!s_onMessage
<1>3. Channel!onMessage(s, "page", m, "returns") = Channel!ended(s, "page", m.id, m.arg)
  BY DEF Channel!onMessage
<1> QED
  BY <1>2, <1>3, SameMessages

\* What the page receives keeps the invariant.
LEMMA PageReceivesIsGood ==
    ASSUME FrameGood(js), Frame!PageReceives
    PROVE  FrameGood(js')
<1> DEFINE s == Frame!Received("page")
           b == js.ch
           x == b.page
           q == b.to.frame
           p == b.to.page
           m == Head(p)
           h == Tail(p)
           e == [b EXCEPT !.to["page"] = Tail(@)]
<1>0. "page" \in Sides /\ Channel!Other("page") = "frame"
  BY DEF Sides, Channel!Sides, Channel!Other
<1>1. /\ FrameTyped(js) /\ Wired(b) /\ Between(b) /\ p # <<>> /\ Told(js)
      /\ Known(x, b.frame, q, p, js.asked)
  <2>1. Known(x, b.frame, q, p, js.asked)
    BY Fields DEF Told
  <2> QED
    BY <2>1, Fields DEF Frame!PageReceives
<1>2. x \in Windows /\ b.frame \in Windows /\ q \in Queues /\ p \in Queues /\ b.to \in [Sides -> Queues]
  BY <1>1 DEF Wired, Sides, Channel!Sides
<1>3. m \in In(p) /\ m \in Messages /\ In(p) = In(h) \cup {m}
  BY <1>1, <1>2, Taken
<1>4. IF m.kind = "answer" THEN m.arg \in Int /\ \E r \in js.asked : r.id = m.id ELSE m.kind = "ready"
  BY <1>1, <1>3 DEF Known
<1>5. s.ch = e /\ s.asked = js.asked /\ \A c : [s EXCEPT !.ch = c] = [js EXCEPT !.ch = c]
  <2>1. s.ch = e /\ s.asked = js.asked
    BY <1>0, ReceivedIs
  <2>2. \A c : [s EXCEPT !.ch = c] = [js EXCEPT !.ch = c]
    BY <1>0, ReceivedIs
  <2> QED
    BY <2>1, <2>2
<1>6. CASE m.kind = "ready"
  <2> DEFINE c == Frame!Channel!s_onMessage(e, "page", m, "returns")
  <2>1. js' = [s EXCEPT !.ch = Frame!Channel!s_onMessage(@, "page", m, "returns")]
    BY <1>6 DEF Frame!PageReceives
  <2>2. [s EXCEPT !.ch = Frame!Channel!s_onMessage(@, "page", m, "returns")] = [s EXCEPT !.ch = c]
    BY <1>5
  <2>3. js' = [js EXCEPT !.ch = c]
    BY <1>5, <2>1, <2>2
  <2>4. FrameGood([js EXCEPT !.ch = c])
    BY <1>0, <1>1, <1>6, HandshakeKeeps
  <2> QED
    BY <2>3, <2>4
<1>7. CASE m.kind = "answer" /\ m.arg = -1
  <2>1. js' = s
    BY <1>7 DEF Frame!PageReceives, Frame!Thrown
  <2> QED
    BY <1>1, <1>7, <2>1, TakenIsGood
<1>8. CASE m.kind = "answer" /\ m.arg # -1
  <2> DEFINE waits == {z \in js.asked : z.id = m.id}
             r == CHOOSE z \in waits : TRUE
             now == [s EXCEPT !.asked = @ \ {r}]
             u == Frame!success(now, r, m.arg)
  <2>1. js' = [u EXCEPT !.ch = Frame!Channel!s_onMessage(@, "page", m, "returns")]
    BY <1>8 DEF Frame!PageReceives, Frame!Thrown
  <2>2. r \in js.asked /\ r.id = m.id
    <3>1. \E z : z \in waits
      BY <1>4, <1>8
    <3> QED
      BY <3>1
  <2> HIDE DEF r
  <2>3. FrameGood(s) /\ Flows(x, b.frame, p, q)
    BY <1>1, <1>8, TakenIsGood
  <2>4. e.page = x /\ e.to.frame = q /\ e.to.page = h
    BY <1>0, <1>1, <1>2 DEF Wired, Sides, Channel!Sides
  <2>5. \A n \in Travels(x, q) : n.kind = "request" => n.id # m.id
    <3>1. m.id \in Ids(p, "answer")
      BY <1>3, <1>8 DEF Ids
    <3>2. m.id \notin InTransit(x, q)
      BY <2>3, <3>1 DEF Flows, RequestsOf
    <3> QED
      BY <3>2 DEF InTransit, Ids, Travels
  <2>6. \A n \in In(h) : n.kind = "answer" => n.id # m.id
    <3>1. Once(p, "answer")
      BY <2>3 DEF Flows, RequestsOf
    <3>2. m.id \notin Ids(h, "answer")
      BY <1>1, <1>2, <1>8, <3>1, Taken
    <3> QED
      BY <3>2 DEF Ids
  <2> HIDE DEF h, e, m, q, x, s
  <2>7. FrameGood(now) /\ (r.method # "setState" => Spare(now)) /\ \A z \in now.asked : z.id # r.id
    <3>1. r \in s.asked
      BY <1>5, <2>2
    <3>2. \A n \in Travels(s.ch.page, s.ch.to.frame) : n.kind = "request" => n.id # r.id
      BY <1>5, <2>2, <2>4, <2>5
    <3>3. \A n \in In(s.ch.to.page) : n.kind = "answer" => n.id # r.id
      BY <1>5, <2>2, <2>4, <2>6
    <3> QED
      BY <2>3, <3>1, <3>2, <3>3, HeardIsGood
  <2>8. /\ now.sop = js.sop /\ now.saves = js.saves /\ now.restored = js.restored /\ now.made = js.made /\ now.ch = e
    <3>1. DOMAIN s = DOMAIN js /\ s.sop = js.sop /\ s.saves = js.saves /\ s.restored = js.restored /\ s.made = js.made
      BY <1>0, ReceivedIs DEF s
    <3> QED
      BY <1>1, <1>5, <3>1 DEF FrameTyped
  <2> HIDE DEF now
  <2>9. js.sop = FALSE
    <3>1. Restores(js, b.frame) /\ js.sop \in BOOLEAN
      BY Fields
    <3> QED
      BY <2>2, <3>1 DEF Restores
  <2>10. r \in Asks /\ r.id >= 1 /\ r.id \in x.outTbl
    BY <1>1, <2>2 DEF FrameTyped, Known
  <2>11. ASSUME r.click.ordered = TRUE, r.method # "setState"
         PROVE  /\ now.restored = TRUE /\ m.arg <= now.made
                /\ r.method = "getGrade" => r.click.made <= m.arg /\ (now.saves = TRUE => m.arg >= 1)
                /\ r.method = "getState" => r.click.made <= r.answer /\ r.answer <= m.arg /\ r.answer >= 1
    <3>1. Waits(r, b.page, b.to.frame, p, js.restored, js.saves, js.made)
      BY <1>1, <2>2, <2>11 DEF Told
    <3> QED
      BY <1>3, <1>8, <2>2, <2>8, <2>11, <3>1 DEF Waits
  <2>12. StillOpen(now, m.id)
    BY <2>2, <2>4, <2>7, <2>8, <2>10 DEF StillOpen
  <2>13. now.sop = FALSE /\ m.arg \in Int
    BY <1>4, <1>8, <2>8, <2>9
  <2>14. FrameGood(u) /\ StillOpen(u, m.id)
    BY <2>7, <2>10, <2>11, <2>12, <2>13, SuccessIsGood
  <2> HIDE DEF u
  <2>15. m.id # 0 /\ m.arg \in Args /\ m.id \in u.ch.page.outTbl /\ \A z \in u.asked : z.id # m.id
    BY <1>3, <2>2, <2>10, <2>14 DEF StillOpen, Messages
  <2>16. u.ch.page.outTbl \subseteq u.ch.page.s_transIds
    BY <2>14, Fields DEF Between, EndsOf
  <2> DEFINE c == Channel!ended(u.ch, "page", m.id, m.arg)
  <2>17. Frame!Channel!s_onMessage(u.ch, "page", m, "returns") = c
    BY <1>3, <1>8, <2>15, <2>16, AnswerEnds
  <2>18. FrameGood([u EXCEPT !.ch = c])
    BY <2>14, <2>15, EndingIsGood
  <2> HIDE DEF c
  <2>19. js' = [u EXCEPT !.ch = c]
    BY <2>1, <2>17
  <2> QED
    BY <2>18, <2>19
<1> QED
  BY <1>4, <1>6, <1>7, <1>8
--------------------------------------------------------------------------------
\* The constructor tries at least once.
LEMMA TriesTyped == MaxTries \in Nat /\ MaxTries >= 1 /\ 0 \in 0 .. MaxTries
<1>1. MaxTries \in Nat \ {0}
  BY ExchangesAssumption
<1> QED
  BY <1>1

\* A frame of the same origin gets its saved state back.
LEMMA RestoreIsGood ==
    ASSUME NEW s, FrameGood(s), s.sop = TRUE, NEW t, DOMAIN t = DOMAIN s, t.ch = s.ch, t.asked = s.asked,
           t.sop = s.sop, t.saves = s.saves, t.inputs = s.inputs, t.loaded = s.loaded,
           t.input = s.input, t.sent = s.sent, t.clicks = s.clicks, t.worked = s.worked,
           t.made = 1, t.restored = TRUE, t.tries = 0
    PROVE  FrameGood(t)
<1>1. /\ FrameTyped(s) /\ Told(s) /\ Between(s.ch) /\ Restored(s) /\ Restores(s, s.ch.frame)
      /\ Counted(s) /\ SentGood(s) /\ Restorable(s) /\ s.worked \in Int
  BY Fields
<1>2. s.asked = {}
  BY <1>1 DEF Restores
<1>3. FrameTyped(t)
  <2>1. t.restored \in BOOLEAN
    OBVIOUS
  <2>2. t.made \in Int /\ t.tries \in Int
    OBVIOUS
  <2> QED
    BY <1>1, <2>1, <2>2 DEF FrameTyped
<1>4. Restores(t, t.ch.frame)
  <2>1. 0 \in 0 .. MaxTries
    BY TriesTyped
  <2>2. t.made >= 0 /\ t.worked >= 0 /\ t.made <= t.worked + 1 /\ t.made >= 1 /\ ~(t.tries > 0)
    BY <1>1 DEF Restores
  <2>3. t.loaded = FALSE => t.ch.frame.bound = FALSE
    BY <1>1 DEF Restores
  <2> QED
    BY <1>2, <2>1, <2>2, <2>3 DEF Restores
<1>5. Known(s.ch.page, s.ch.frame, s.ch.to.frame, s.ch.to.page, s.asked)
  BY <1>1 DEF Told
<1>6. Restored(t)
  <2>1. \A m \in Travels(s.ch.page, s.ch.to.frame) : m.kind # "request"
    BY <1>2, <1>5 DEF Known
  <2> QED
    BY <2>1 DEF Restored, SetStates
<1>7. Told(t)
  BY <1>2, <1>5 DEF Told
<1>8. Counted(t) /\ SentGood(t) /\ Restorable(t)
  <2>1. Counted(t)
    BY <1>1 DEF Counted, LastWaits
  <2>2. SentGood(t)
    BY <1>1 DEF SentGood, LastWaits
  <2> QED
    BY <2>1, <2>2 DEF Restorable
<1> QED
  BY <1>1, <1>3, <1>4, <1>6, <1>7, <1>8 DEF FrameGood, AlmostGood

\* Another try to reach a frame of the same origin keeps the invariant.
LEMMA TryAgainIsGood ==
    ASSUME FrameGood(js), Frame!TryAgain
    PROVE  FrameGood(js')
<1>1. FrameTyped(js) /\ Restores(js, js.ch.frame) /\ js.tries \in Int /\ js.loaded \in BOOLEAN
      /\ js.made \in Int /\ js.clicks \in Int /\ js.worked \in Int
  BY Fields
<1>2. js.tries > 0 /\ js' = Frame!whileloop(js, js.tries)
  BY DEF Frame!TryAgain
<1>3. js.sop = TRUE
  BY <1>1, <1>2 DEF Restores
<1>4. js.tries # 0
  BY <1>1, <1>2
<1>5. CASE js.loaded = TRUE
  <2>1. js' = [[js EXCEPT !.made = 1, !.restored = TRUE] EXCEPT !.tries = 0]
    BY <1>2, <1>3, <1>4, <1>5 DEF Frame!whileloop, Frame!setState
  <2>2. /\ DOMAIN js' = DOMAIN js /\ js'.ch = js.ch /\ js'.asked = js.asked
        /\ js'.sop = js.sop /\ js'.saves = js.saves /\ js'.inputs = js.inputs /\ js'.loaded = js.loaded
        /\ js'.input = js.input /\ js'.sent = js.sent /\ js'.clicks = js.clicks /\ js'.worked = js.worked
        /\ js'.made = 1 /\ js'.restored = TRUE /\ js'.tries = 0
    BY <1>1, <2>1 DEF FrameTyped
  <2> QED
    BY <1>3, <2>2, RestoreIsGood
<1>6. CASE js.loaded = FALSE
  <2>1. js' = [js EXCEPT !.tries = js.tries - 1]
    BY <1>2, <1>3, <1>4, <1>6 DEF Frame!whileloop
  <2>2. /\ DOMAIN js' = DOMAIN js /\ js'.ch = js.ch /\ js'.asked = js.asked
        /\ js'.sop = js.sop /\ js'.saves = js.saves /\ js'.inputs = js.inputs /\ js'.loaded = js.loaded
        /\ js'.input = js.input /\ js'.sent = js.sent /\ js'.clicks = js.clicks /\ js'.worked = js.worked
        /\ js'.made = js.made /\ js'.restored = js.restored /\ js'.tries = js.tries - 1
    BY <1>1, <2>1 DEF FrameTyped
  <2>3. js.tries - 1 \in 0 .. MaxTries
    <3>1. js.tries \in 0 .. MaxTries
      BY <1>1 DEF Restores
    <3> QED
      BY <1>2, <3>1, TriesTyped
  <2>4. Restores(js', js'.ch.frame)
    BY <1>1, <1>2, <2>2, <2>3 DEF Restores
  <2>5. js'.tries \in Int /\ js'.made >= js.made /\ js'.clicks >= js.clicks
    BY <1>1, <2>2
  <2> QED
    BY <1>1, <2>2, <2>4, <2>5, Aside
<1> QED
  BY <1>1, <1>5, <1>6
--------------------------------------------------------------------------------
\* The channel of a page that is shown, and of a frame that was not loaded yet.
LEMMA NewChannel ==
    ASSUME NEW first \in Int, first >= 1,
           NEW c, c = [page |-> Frame!Channel!build([page |-> Frame!Channel!Window(first)], "page").page,
                       frame |-> Frame!Channel!Window(1),
                       to |-> [w \in {"page", "frame"} |-> <<>>],
                       log |-> [w \in {"page", "frame"} |-> Frame!Channel!Quiet]]
    PROVE  /\ Wired(c) /\ Between(c) /\ c.frame.bound = FALSE /\ c.to.page = <<>> /\ c.to.frame = <<>>
           /\ c.page.pendingQueue = <<>> /\ c.frame.pendingQueue = <<>> /\ c.page.s_curTranId >= 1
<1> DEFINE v == Channel!Window(first)
           x == [v EXCEPT !.bound = TRUE, !.registered = TRUE, !.ready = FALSE]
           y == Channel!Window(1)
           l == Channel!Quiet
<1>1. v \in Windows /\ EndsOf(v, l) /\ y \in Windows /\ EndsOf(y, l) /\ l \in Logs
  BY NewWindow
<1>2. Frame!Channel!Window(first) = v /\ Frame!Channel!Window(1) = y /\ Frame!Channel!Quiet = l
  BY SameSides
<1>3. Frame!Channel!build([page |-> v], "page").page = x
  <2>1. Frame!Channel!build([page |-> v], "page") = Channel!build([page |-> v], "page")
    BY SamePosts
  <2> HIDE DEF v
  <2>2. Channel!build([page |-> v], "page").page = x
    BY <1>1 DEF Channel!build, Windows
  <2> QED
    BY <2>1, <2>2
<1>4. v.bound = FALSE /\ y.bound = FALSE
  BY DEF Channel!Window
<1>5. v.pendingQueue = <<>> /\ y.pendingQueue = <<>> /\ v.s_curTranId = first
  BY DEF Channel!Window
<1>6. Flows(v, y, <<>>, <<>>)
  BY GoodStart DEF Good
<1> HIDE DEF v, y, l
<1>7. /\ x \in Windows /\ x.outTbl = v.outTbl /\ x.s_transIds = v.s_transIds /\ x.s_curTranId = v.s_curTranId
      /\ x.pendingQueue = v.pendingQueue
  BY <1>1 DEF Windows
<1>8. x.ready = FALSE
  BY <1>1 DEF Windows
<1>9. Flows(x, y, <<>>, <<>>)
  BY <1>1, <1>4, <1>6, FlowsBuild
<1> HIDE DEF x
<1>10. EndsOf(x, l)
  BY <1>1, <1>7, <1>8, EndsKept
<1>11. /\ c.page = x /\ c.frame = y /\ c.to.page = <<>> /\ c.to.frame = <<>>
       /\ c.log.page = l /\ c.log.frame = l
  BY <1>2, <1>3
<1>12. Wired(c)
  <2>1. c.to \in [Sides -> Queues] /\ c.log \in [Sides -> Logs]
    BY <1>1, <1>2 DEF Sides, Channel!Sides, Queues
  <2>2. \A w \in Sides : c[w] \in Windows
    BY <1>1, <1>7, <1>11 DEF Sides, Channel!Sides
  <2>3. {"page", "frame", "to", "log"} \subseteq DOMAIN c
    OBVIOUS
  <2> QED
    BY <2>1, <2>2, <2>3 DEF Wired
<1>13. Between(c)
  BY <1>1, <1>9, <1>10, <1>11 DEF Between
<1>14. c.frame.bound = FALSE
  BY <1>4, <1>11
<1> QED
  BY <1>5, <1>7, <1>11, <1>12, <1>13, <1>14
--------------------------------------------------------------------------------
\* The problem is shown, and the channel of its input is new.
LEMMA ShownIsGood ==
    ASSUME NEW s, DOMAIN s = {"sop", "saves", "inputs", "ch", "loaded", "made", "restored", "tries", "asked",
                              "input", "sent", "clicks", "failed", "worked"},
           s.sop \in BOOLEAN, s.saves \in BOOLEAN, s.loaded = FALSE, s.made = 0, s.restored \in BOOLEAN,
           s.restored = FALSE <=> s.saves = TRUE, s.tries = 0, s.asked = {}, s.input = <<0, 0>>, s.sent = <<>>,
           s.clicks = 0, s.worked = 0, NEW c, s.ch = c,
           Wired(c), Between(c), c.frame.bound = FALSE, c.to.page = <<>>, c.to.frame = <<>>,
           c.page.pendingQueue = <<>>, c.frame.pendingQueue = <<>>, c.page.s_curTranId >= 1
    PROVE  AlmostGood(s) /\ (s.sop = TRUE \/ s.restored = TRUE => Restorable(s))
<1>1. FrameTyped(s)
  <2>1. {s.sop, s.saves, s.loaded, s.restored} \subseteq BOOLEAN
    OBVIOUS
  <2>2. {s.made, s.tries, s.clicks, s.worked} \subseteq Int
    OBVIOUS
  <2>3. s.asked \subseteq Asks /\ IsFiniteSet(s.asked)
    BY FS_EmptySet
  <2>4. s.input \in Int \X Int /\ s.sent \in Seq(Submissions)
    OBVIOUS
  <2>5. Wired(s.ch)
    OBVIOUS
  <2> QED
    BY <2>1, <2>2, <2>3, <2>4, <2>5 DEF FrameTyped
<1>2. Travels(c.page, c.to.frame) = {} /\ In(c.to.page) = {}
  BY NothingIn DEF Travels
<1>3. Restores(s, s.ch.frame)
  <2>1. s.tries \in 0 .. MaxTries /\ ~(s.tries > 0)
    BY TriesTyped
  <2>2. s.made >= 0 /\ s.worked >= 0 /\ s.made <= s.worked + 1
    OBVIOUS
  <2>3. (s.restored = FALSE => s.saves = TRUE) /\ (s.restored = TRUE /\ s.saves = TRUE => s.made >= 1)
    OBVIOUS
  <2>4. (s.loaded = FALSE => s.ch.frame.bound = FALSE) /\ (s.sop = TRUE => s.asked = {})
    OBVIOUS
  <2> QED
    BY <2>1, <2>2, <2>3, <2>4 DEF Restores
<1>4. Told(s)
  <2>1. Known(c.page, c.frame, c.to.frame, c.to.page, {})
    BY <1>2 DEF Known
  <2> QED
    BY <2>1 DEF Told
<1>5. Restored(s)
  BY <1>2 DEF Restored
<1>6. Counted(s)
  <2>1. Graded({}) = {} /\ Cardinality({}) = 0 /\ Len(<<>>) = 0
    BY FS_EmptySet DEF Graded
  <2>2. Cardinality(Graded(s.asked)) = 0 /\ Len(s.sent) = 0
    BY <2>1
  <2> QED
    BY <2>2 DEF Counted
<1>7. SentGood(s)
  BY DEF SentGood
<1>8. s.sop = TRUE \/ s.restored = TRUE => Restorable(s)
  BY DEF Restorable
<1> QED
  BY <1>1, <1>3, <1>4, <1>5, <1>6, <1>7, <1>8 DEF AlmostGood

\* The constructor of the input makes the invariant true.
LEMMA ConstructorIsGood ==
    ASSUME NEW sop \in BOOLEAN, NEW saves \in BOOLEAN, NEW inputs, NEW first \in Int, first >= 1
    PROVE  LET s == Frame!jsinputConstructor(sop, saves, inputs, first)
           IN  FrameGood(s) /\ s.inputs = inputs /\ s.clicks = 0 /\ s.sent = <<>>
<1> DEFINE c == [page |-> Frame!Channel!build([page |-> Frame!Channel!Window(first)], "page").page,
                 frame |-> Frame!Channel!Window(1),
                 to |-> [w \in {"page", "frame"} |-> <<>>],
                 log |-> [w \in {"page", "frame"} |-> Frame!Channel!Quiet]]
           s == [sop |-> sop, saves |-> saves, inputs |-> inputs, ch |-> c,
                 loaded |-> FALSE, made |-> 0, restored |-> ~saves, tries |-> 0, asked |-> {},
                 input |-> <<0, 0>>, sent |-> <<>>, clicks |-> 0, failed |-> FALSE, worked |-> 0]
           u == IF saves THEN Frame!whileloop(s, MaxTries) ELSE s
<1>1. Frame!jsinputConstructor(sop, saves, inputs, first) = u
  BY DEF Frame!jsinputConstructor
<1>2. /\ Wired(c) /\ Between(c) /\ c.frame.bound = FALSE /\ c.to.page = <<>> /\ c.to.frame = <<>>
      /\ c.page.pendingQueue = <<>> /\ c.frame.pendingQueue = <<>> /\ c.page.s_curTranId >= 1
  BY NewChannel
<1> HIDE DEF c
<1>3. /\ DOMAIN s = {"sop", "saves", "inputs", "ch", "loaded", "made", "restored", "tries", "asked",
                     "input", "sent", "clicks", "failed", "worked"}
      /\ s.made = 0 /\ s.tries = 0 /\ s.asked = {} /\ s.input = <<0, 0>> /\ s.sent = <<>>
      /\ s.clicks = 0 /\ s.worked = 0 /\ s.ch = c /\ s.inputs = inputs
  OBVIOUS
<1>4. /\ s.sop = sop /\ s.saves = saves /\ s.loaded = FALSE /\ s.restored \in BOOLEAN
      /\ s.restored = FALSE <=> s.saves = TRUE
  OBVIOUS
<1> HIDE DEF s
<1>5. AlmostGood(s) /\ (s.sop = TRUE \/ s.restored = TRUE => Restorable(s))
  BY <1>2, <1>3, <1>4, ShownIsGood
<1>6. CASE saves = FALSE
  <2>1. u = s /\ s.restored = TRUE
    BY <1>4, <1>6
  <2> HIDE DEF u
  <2> QED
    BY <1>1, <1>3, <1>5, <2>1 DEF FrameGood
<1>7. CASE saves = TRUE /\ sop = TRUE
  <2>1. MaxTries # 0 /\ MaxTries \in Nat /\ MaxTries - 1 \in 0 .. MaxTries
    BY TriesTyped
  <2>2. u = [s EXCEPT !.tries = MaxTries - 1]
    BY <1>4, <1>7, <2>1 DEF Frame!whileloop
  <2> HIDE DEF u
  <2>3. /\ DOMAIN u = DOMAIN s /\ u.ch = s.ch /\ u.asked = s.asked
        /\ u.sop = s.sop /\ u.saves = s.saves /\ u.inputs = s.inputs /\ u.loaded = s.loaded
        /\ u.input = s.input /\ u.sent = s.sent /\ u.clicks = s.clicks /\ u.worked = s.worked
        /\ u.made = s.made /\ u.restored = s.restored /\ u.tries = MaxTries - 1
    BY <1>3, <2>2
  <2>4. FrameGood(s) /\ s.sop = TRUE /\ s.saves = TRUE /\ s.restored = FALSE
    BY <1>4, <1>5, <1>7 DEF FrameGood
  <2>5. Restores(u, u.ch.frame)
    <3>1. Restores(s, s.ch.frame)
      BY <2>4, Fields
    <3> QED
      BY <2>1, <2>3, <2>4, <3>1 DEF Restores
  <2>6. u.tries \in Int /\ u.made \in Int /\ u.clicks \in Int /\ u.worked \in Int /\ u.made >= s.made /\ u.clicks >= s.clicks
    BY <1>3, <2>1, <2>3
  <2>7. u.loaded \in BOOLEAN
    BY <1>4, <2>3
  <2>8. FrameGood(u)
    BY <2>3, <2>4, <2>5, <2>6, <2>7, Aside
  <2> QED
    BY <1>1, <1>3, <2>3, <2>8
<1>8. CASE saves = TRUE /\ sop = FALSE
  <2> DEFINE click == Frame!Click(s)
  <2>1. MaxTries # 0
    BY TriesTyped
  <2>2. u = Frame!call(s, "setState", click, 0)
    BY <1>4, <1>8, <2>1 DEF Frame!whileloop
  <2>3. click \in Clicks
    <3>1. s.made \in Int /\ s.ch.page.ready \in BOOLEAN
      BY <1>2, <1>3 DEF Wired, Sides, Channel!Sides, Windows
    <3> DEFINE made == IF s.restored THEN s.made ELSE 0
               ordered == s.restored \/ (~s.sop /\ s.ch.page.ready)
    <3>2. made \in Int
      BY <1>4, <3>1
    <3>3. ordered \in BOOLEAN
      BY <1>4, <3>1
    <3>4. click = [made |-> made, ordered |-> ordered]
      BY DEF Frame!Click
    <3> HIDE DEF made, ordered, click
    <3> QED
      BY <3>2, <3>3, <3>4 DEF Clicks
  <2> HIDE DEF click, u
  <2>4. MayCall(s, "setState", click, 0)
    BY <1>3, <1>4, <1>8 DEF MayCall
  <2>5. "setState" \in Methods /\ 0 \in Int
    BY DEF Methods
  <2>6. AlmostGood(u) /\ Restorable(u)
    BY <1>5, <2>2, <2>3, <2>4, <2>5, CallIsGood
  <2>7. u.inputs = s.inputs /\ u.clicks = s.clicks /\ u.sent = s.sent
    <3>1. FrameTyped(s)
      BY <1>5 DEF AlmostGood
    <3> QED
      BY <2>2, <3>1, CallFields
  <2> QED
    BY <1>1, <1>3, <2>6, <2>7 DEF FrameGood
<1> QED
  BY <1>6, <1>7, <1>8

\* The invariant holds when the problem is shown.
LEMMA FrameStarts == Frame!Init => FrameGood(js)
<1> SUFFICES ASSUME Frame!Init
             PROVE  FrameGood(js)
  OBVIOUS
<1>1. PICK sop \in BOOLEAN, saves \in BOOLEAN, inputs \in {<<"js">>, <<"js", "text">>, <<"text", "js">>} :
        js = Frame!jsinputConstructor(sop, saves, inputs, 1)
  BY DEF Frame!Init
<1>2. FrameGood(Frame!jsinputConstructor(sop, saves, inputs, 1))
  BY ConstructorIsGood
<1> QED
  BY <1>1, <1>2

\* The problem that is shown again has a new input, and nothing waits for the old one.
LEMMA ShownAgainIsGood ==
    ASSUME FrameGood(js), Frame!ShownAgain
    PROVE  FrameGood(js') /\ js'.sent = <<>>
<1> DEFINE first == js.ch.page.s_curTranId
           s == Frame!jsinputConstructor(js.sop, TRUE, js.inputs, first)
<1>1. /\ FrameTyped(js) /\ Counted(js) /\ Told(js) /\ js.sop \in BOOLEAN /\ js.clicks \in Int /\ IsFiniteSet(js.asked)
  BY Fields
<1>2. first >= 1 /\ first \in Int
  BY <1>1 DEF Told, Known, FrameTyped, Wired, Sides, Channel!Sides, Windows
<1>3. js' = [s EXCEPT !.clicks = js.clicks]
  BY DEF Frame!ShownAgain
<1>4. FrameGood(s) /\ s.inputs = js.inputs /\ s.clicks = 0 /\ s.sent = <<>>
  <2> DEFINE sop == js.sop
             inputs == js.inputs
             saves == TRUE
  <2>1. sop \in BOOLEAN /\ saves \in BOOLEAN
    BY <1>1
  <2> HIDE DEF first, sop, inputs, saves
  <2>2. LET t == Frame!jsinputConstructor(sop, saves, inputs, first)
        IN  FrameGood(t) /\ t.inputs = inputs /\ t.clicks = 0 /\ t.sent = <<>>
    BY <1>2, <2>1, ConstructorIsGood
  <2> QED
    BY <2>2 DEF sop, saves, inputs
<1> HIDE DEF s, first
<1>5. FrameTyped(s) /\ Restores(s, s.ch.frame) /\ s.made \in Int /\ s.tries \in Int /\ s.worked \in Int /\ s.loaded \in BOOLEAN
  BY <1>4, Fields
<1>6. /\ DOMAIN js' = DOMAIN s /\ js'.ch = s.ch /\ js'.asked = s.asked
      /\ js'.sop = s.sop /\ js'.saves = s.saves /\ js'.inputs = s.inputs /\ js'.loaded = s.loaded
      /\ js'.input = s.input /\ js'.sent = s.sent /\ js'.clicks = js.clicks /\ js'.worked = s.worked
      /\ js'.made = s.made /\ js'.restored = s.restored /\ js'.tries = s.tries
  BY <1>3, <1>5 DEF FrameTyped
<1>7. LastWaits(s) => js.clicks >= s.clicks
  <2>1. LastWaits(s) => LastWaits(js)
    BY <1>4 DEF LastWaits
  <2>2. Len(js.sent) \in Nat /\ Cardinality(Graded(js.asked)) \in Nat
    BY <1>1, GradedNumber DEF FrameTyped
  <2> QED
    BY <1>1, <1>4, <2>1, <2>2 DEF Counted
<1>8. Restores(js', js'.ch.frame)
  BY <1>5, <1>6 DEF Restores
<1>9. js'.made >= s.made
  BY <1>5, <1>6
<1>10. FrameGood(js')
  BY <1>1, <1>4, <1>5, <1>6, <1>7, <1>8, <1>9, Aside
<1> QED
  BY <1>4, <1>6, <1>10
--------------------------------------------------------------------------------
\* Every step of the problem and its frame keeps the invariant.
LEMMA FrameGoesOn == FrameGood(js) /\ Frame!Next => FrameGood(js')
<1> SUFFICES ASSUME FrameGood(js), Frame!Next
             PROVE  FrameGood(js')
  OBVIOUS
<1>1. CASE Frame!FrameLoads
  BY <1>1, LoadIsGood
<1>2. CASE Frame!TryAgain
  BY <1>2, TryAgainIsGood
<1>3. CASE Frame!FrameReceives
  BY <1>3, FrameReceivesIsGood
<1>4. CASE Frame!PageReceives
  BY <1>4, PageReceivesIsGood
<1>5. CASE Frame!Work
  BY <1>5, WorkIsGood
<1>6. CASE Frame!Submit
  BY <1>6, SubmitIsGood
<1>7. CASE Frame!ShownAgain
  BY <1>7, ShownAgainIsGood
<1>8. ASSUME NEW w \in Sides, Frame!Ping(w)
      PROVE  FrameGood(js')
  BY <1>8, PingIsGood
<1> QED
  BY <1>1, <1>2, <1>3, <1>4, <1>5, <1>6, <1>7, <1>8 DEF Frame!Next, Sides, Channel!Sides

(***************************************************************************)
(* Between the page and the frame of a jsinput nothing is answered twice   *)
(* or before the handshake, and what is sent to be graded was entered in a *)
(* frame that has its saved state back, once for a click: for any number   *)
(* of clicks, changes, tries and calls, and frames that fail or are slow.  *)
(***************************************************************************)
THEOREM FrameIsAlwaysHeard == Spec => []FrameIsHeard
<1> DEFINE Inv == ChannelInv(ch) /\ FrameGood(js)
<1>1. Init => Inv
  BY ChannelStarts, FrameStarts DEF Init
<1>2. ASSUME Inv, [Next]_vars
      PROVE  Inv'
  <2>1. [Channel!Next]_ch /\ [Frame!Next]_js
    BY <1>2 DEF Next, vars
  <2>2. ChannelInv(ch')
    BY <1>2, <2>1, ChannelGoesOn
  <2>3. FrameGood(js')
    BY <1>2, <2>1, FrameGoesOn
  <2> QED
    BY <2>2, <2>3
<1>3. Inv => FrameIsHeard
  BY ChannelTells, GoodTells DEF FrameIsHeard
<1> HIDE DEF Inv
<1> QED
  BY <1>1, <1>2, <1>3, PTL DEF Spec
--------------------------------------------------------------------------------
\* What is made in the frame is the same.
SameWork(s, t) == "made" \in DOMAIN t /\ t.made = s.made

\* Sending the problem, or making a call, changes nothing that is in the frame.
LEMMA SendingKeepsWork ==
    ASSUME NEW s, "made" \in DOMAIN s, NEW click
    PROVE  /\ SameWork(s, Frame!submit_internal(s, click))
           /\ \A answer, state : SameWork(s, Frame!answered(s, answer, state, click))
           /\ \A method, answer : SameWork(s, Frame!call(s, method, click, answer))
<1>1. ASSUME NEW t, "made" \in DOMAIN t
      PROVE  SameWork(t, Frame!submit_internal(t, click))
  <2> DEFINE x == Append(t.sent, [input |-> t.input, click |-> click])
  <2>1. Frame!submit_internal(t, click) = [t EXCEPT !.sent = x]
    BY DEF Frame!submit_internal
  <2> HIDE DEF x
  <2> QED
    BY <1>1, <2>1 DEF SameWork
<1>2. ASSUME NEW answer, NEW state
      PROVE  SameWork(s, Frame!answered(s, answer, state, click))
  <2> DEFINE i == <<answer, state>>
             t == [s EXCEPT !.input = i]
  <2> HIDE DEF i
  <2>1. "made" \in DOMAIN t /\ t.made = s.made
    OBVIOUS
  <2>2. Frame!answered(s, answer, state, click) = Frame!submit_internal(t, click)
    BY DEF Frame!answered, i
  <2> HIDE DEF t
  <2>3. SameWork(t, Frame!submit_internal(t, click))
    BY <1>1, <2>1
  <2> QED
    BY <2>1, <2>2, <2>3 DEF SameWork
<1>3. ASSUME NEW method, NEW answer
      PROVE  SameWork(s, Frame!call(s, method, click, answer))
  <2> DEFINE c == Frame!Channel!call(s.ch, "page", method, FALSE)
             A == s.asked \cup {Frame!Asked(s.ch.page.s_curTranId, method, click, answer)}
  <2>1. Frame!call(s, method, click, answer) = [s EXCEPT !.ch = c, !.asked = A]
    BY DEF Frame!call
  <2> HIDE DEF c, A
  <2> QED
    BY <2>1 DEF SameWork
<1> QED
  BY <1>1, <1>2, <1>3

\* A click on Submit, and an answer that is heard, change nothing that is in the frame.
LEMMA AskingKeepsWork ==
    ASSUME NEW s, "made" \in DOMAIN s
    PROVE  /\ SameWork(s, Frame!submit_save_waitfor(s))
           /\ \A r, value : SameWork(s, Frame!success(s, r, value))
<1> DEFINE u == IF "js" \in Frame!ToSet(s.inputs) THEN Frame!update(s) ELSE s
           c == Frame!Click(s)
<1>1. SameWork(s, Frame!update(s))
  <2>1. Frame!update(s) = Frame!answered(s, s.made, s.made, c) \/ Frame!update(s) = Frame!call(s, "getGrade", c, 0)
    BY DEF Frame!update
  <2> HIDE DEF c
  <2> QED
    BY <2>1, SendingKeepsWork
<1>2. SameWork(s, u)
  BY <1>1 DEF SameWork
<1>3. Frame!submit_save_waitfor(s) = u \/ Frame!submit_save_waitfor(s) = Frame!submit_internal(u, c)
  BY DEF Frame!submit_save_waitfor
<1> HIDE DEF u, c
<1>4. SameWork(u, Frame!submit_internal(u, c))
  BY <1>2, SendingKeepsWork DEF SameWork
<1>5. SameWork(s, Frame!submit_save_waitfor(s))
  BY <1>2, <1>3, <1>4 DEF SameWork
<1>6. ASSUME NEW r, NEW value
      PROVE  SameWork(s, Frame!success(s, r, value))
  <2>1. \/ Frame!success(s, r, value) = Frame!call(s, "getState", r.click, value)
        \/ Frame!success(s, r, value) = Frame!answered(s, value, value, r.click)
        \/ Frame!success(s, r, value) = Frame!answered(s, r.answer, value, r.click)
        \/ Frame!success(s, r, value) = s
    BY DEF Frame!success
  <2>2. SameWork(s, s)
    BY DEF SameWork
  <2> QED
    BY <2>1, <2>2, SendingKeepsWork
<1> QED
  BY <1>5, <1>6

\* The frame does what it is asked: it was not asked to put back what it has put back.
LEMMA ServingKeepsWork ==
    ASSUME FrameGood(js), Frame!FrameReceives, js.restored = TRUE
    PROVE  SameWork(js, js')
<1> DEFINE s == Frame!Received("frame")
           m == Head(js.ch.to.frame)
<1>1. FrameTyped(js) /\ Restored(js) /\ js.ch.to.frame # <<>> /\ js.ch.to.frame \in Queues
  <2>1. FrameTyped(js) /\ Restored(js) /\ Wired(js.ch)
    BY Fields
  <2> QED
    BY <2>1 DEF Frame!FrameReceives, Wired, Sides, Channel!Sides
<1>2. "made" \in DOMAIN s /\ s.made = js.made
  <2>1. "frame" \in Sides
    BY DEF Sides, Channel!Sides
  <2>2. DOMAIN s = DOMAIN js /\ s.made = js.made
    BY <2>1, ReceivedIs
  <2> QED
    BY <1>1, <2>2 DEF FrameTyped
<1>3. m \in Messages /\ m \in In(js.ch.to.frame)
  BY <1>1, Taken
<1>4. m.kind = "request" => m.arg # "setState"
  BY <1>1, <1>3 DEF Restored, Travels, SetStates
<1> HIDE DEF m
<1>5. ASSUME NEW throws \in BOOLEAN, m.kind = "request", js' = Frame!frameServes(s, m, throws)
      PROVE  SameWork(js, js')
  <2>1. PICK x : js' = [s EXCEPT !.ch = x, !.failed = TRUE] \/ js' = [s EXCEPT !.ch = x]
    <3>1. m.arg # "setState"
      BY <1>4, <1>5
    <3> DEFINE x == Frame!Channel!complete(s.ch, "frame", m.id, Frame!Thrown)
               y == Frame!Channel!complete(s.ch, "frame", m.id, s.made)
    <3>2. js' = [s EXCEPT !.ch = x, !.failed = TRUE] \/ js' = [s EXCEPT !.ch = y]
      BY <1>5, <3>1 DEF Frame!frameServes
    <3> HIDE DEF x, y
    <3> QED
      BY <3>2
  <2> HIDE DEF s
  <2> QED
    BY <1>2, <2>1 DEF SameWork
<1>6. ASSUME NEW x, js' = [s EXCEPT !.ch = x]
      PROVE  SameWork(js, js')
  <2> HIDE DEF s
  <2> QED
    BY <1>2, <1>6 DEF SameWork
<1>7. \/ m.kind = "request" /\ \E throws \in BOOLEAN : js' = Frame!frameServes(s, m, throws)
      \/ \E x : js' = [s EXCEPT !.ch = x]
  <2> DEFINE x == Frame!Channel!s_onMessage(s.ch, "frame", m, "returns")
  <2>1. \/ m.kind = "request" /\ \E throws \in BOOLEAN : js' = Frame!frameServes(s, m, throws)
        \/ js' = [s EXCEPT !.ch = x]
    BY DEF Frame!FrameReceives, m
  <2> HIDE DEF x
  <2> QED
    BY <2>1
<1> QED
  BY <1>5, <1>6, <1>7
--------------------------------------------------------------------------------
\* What the page hears changes nothing that is in the frame.
LEMMA HearingKeepsWork ==
    ASSUME FrameGood(js), Frame!PageReceives
    PROVE  SameWork(js, js')
<1> DEFINE s == Frame!Received("page")
           m == Head(js.ch.to.page)
           r == CHOOSE x \in {z \in js.asked : z.id = m.id} : TRUE
           now == [s EXCEPT !.asked = @ \ {r}]
<1>1. "made" \in DOMAIN s /\ s.made = js.made
  <2>1. "page" \in Sides /\ FrameTyped(js)
    BY Fields DEF Sides, Channel!Sides
  <2>2. DOMAIN s = DOMAIN js /\ s.made = js.made
    BY <2>1, ReceivedIs
  <2> QED
    BY <2>1, <2>2 DEF FrameTyped
<1>2. \/ \E x : js' = [s EXCEPT !.ch = x]
      \/ js' = s
      \/ \E x : js' = [Frame!success(now, r, m.arg) EXCEPT !.ch = x]
  <2> DEFINE x == Frame!Channel!s_onMessage(s.ch, "page", m, "returns")
             u == Frame!success(now, r, m.arg)
             y == Frame!Channel!s_onMessage(u.ch, "page", m, "returns")
  <2>1. js' = [s EXCEPT !.ch = x] \/ js' = s \/ js' = [u EXCEPT !.ch = y]
    BY DEF Frame!PageReceives
  <2> HIDE DEF x, y, s, now, r, m
  <2> QED
    BY <2>1
<1> HIDE DEF s
<1>3. "made" \in DOMAIN now /\ now.made = js.made
  <2> HIDE DEF r
  <2> QED
    BY <1>1
<1> HIDE DEF now
<1>4. SameWork(now, Frame!success(now, r, m.arg))
  <2> HIDE DEF r, m
  <2> QED
    BY <1>3, AskingKeepsWork
<1> DEFINE u == Frame!success(now, r, m.arg)
<1>5. "made" \in DOMAIN u /\ u.made = js.made
  BY <1>3, <1>4 DEF SameWork
<1> HIDE DEF u
<1>6. ASSUME NEW x, js' = [s EXCEPT !.ch = x] \/ js' = s \/ js' = [u EXCEPT !.ch = x]
      PROVE  SameWork(js, js')
  BY <1>1, <1>5, <1>6 DEF SameWork
<1> QED
  BY <1>2, <1>6, Zenon DEF u

\* What is made in a frame that has its saved state stays while the same problem is shown.
Stays == js.restored /\ js'.restored /\ Len(js'.sent) >= Len(js.sent) => js'.made >= js.made

\* Every step of the problem and its frame keeps it.
LEMMA WorkIsKept == FrameGood(js) /\ Frame!Next => Stays
<1> SUFFICES ASSUME FrameGood(js), Frame!Next, js.restored, js'.restored, Len(js'.sent) >= Len(js.sent)
             PROVE  js'.made >= js.made
  BY DEF Stays
<1>1. /\ FrameTyped(js) /\ Restores(js, js.ch.frame) /\ js.restored = TRUE /\ js.sent \in Seq(Submissions)
      /\ "made" \in DOMAIN js /\ js.made \in Int /\ js.worked \in Int /\ js.tries \in Int
  <2>1. FrameTyped(js) /\ Restores(js, js.ch.frame) /\ js.restored \in BOOLEAN /\ js.made \in Int /\ js.worked \in Int /\ js.tries \in Int
    BY Fields
  <2> QED
    BY <2>1 DEF FrameTyped
<1>2. ASSUME SameWork(js, js')
      PROVE  js'.made >= js.made
  BY <1>1, <1>2 DEF SameWork
<1>3. ASSUME Frame!FrameLoads
      PROVE  js'.made >= js.made
  <2> DEFINE c == IF js.sop THEN js.ch ELSE Frame!Channel!build(js.ch, "frame")
  <2>1. js' = [js EXCEPT !.loaded = TRUE, !.ch = c]
    BY <1>3 DEF Frame!FrameLoads
  <2> HIDE DEF c
  <2> QED
    BY <1>1, <1>2, <2>1 DEF SameWork
<1>4. ~Frame!TryAgain
  BY <1>1 DEF Frame!TryAgain, Restores
<1>5. ASSUME Frame!FrameReceives
      PROVE  js'.made >= js.made
  BY <1>1, <1>2, <1>5, ServingKeepsWork
<1>6. ASSUME Frame!PageReceives
      PROVE  js'.made >= js.made
  BY <1>2, <1>6, HearingKeepsWork
<1>7. ASSUME Frame!Work
      PROVE  js'.made >= js.made
  <2>1. js'.made = js.worked + 2
    BY <1>1, <1>7 DEF Frame!Work
  <2>2. js.made <= js.worked + 1
    BY <1>1 DEF Restores
  <2> QED
    BY <1>1, <2>1, <2>2
<1>8. ASSUME Frame!Submit
      PROVE  js'.made >= js.made
  <2> DEFINE f == [js EXCEPT !.clicks = @ + 1, !.failed = TRUE]
             s == [js EXCEPT !.clicks = @ + 1]
  <2>1. js' = f \/ js' = Frame!submit_save_waitfor(s)
    BY <1>8 DEF Frame!Submit
  <2>2. SameWork(js, f) /\ SameWork(js, s)
    BY <1>1 DEF SameWork
  <2> HIDE DEF f, s
  <2>3. SameWork(s, Frame!submit_save_waitfor(s))
    BY <2>2, AskingKeepsWork DEF SameWork
  <2> QED
    BY <1>2, <2>1, <2>2, <2>3 DEF SameWork
<1>9. ~Frame!ShownAgain
  <2> SUFFICES ASSUME Frame!ShownAgain
               PROVE  FALSE
    OBVIOUS
  <2>1. js'.sent = <<>>
    BY ShownAgainIsGood
  <2>2. Len(js.sent) = 0
    BY <1>1, <2>1
  <2> QED
    BY <1>1, <2>2 DEF Frame!ShownAgain
<1>10. ASSUME NEW w \in Sides, Frame!Ping(w)
       PROVE  js'.made >= js.made
  <2> DEFINE c == Frame!Channel!transmit([js.ch EXCEPT ![w].pinged = TRUE], w, Frame!Channel!Ready("ping"))
  <2>1. js' = [js EXCEPT !.ch = c]
    BY <1>10 DEF Frame!Ping
  <2> HIDE DEF c
  <2> QED
    BY <1>1, <1>2, <2>1 DEF SameWork
<1> QED
  BY <1>3, <1>4, <1>5, <1>6, <1>7, <1>8, <1>9, <1>10 DEF Frame!Next, Sides, Channel!Sides

(***************************************************************************)
(* What the learner makes in a frame that has its saved state is not put   *)
(* back to an older state, whenever setState arrives or is tried again     *)
(* (jsinput.js: whileloop, setState, the calls of submit_save_waitfor).    *)
(***************************************************************************)
THEOREM WorkAlwaysStays == Spec => Frame!WorkStays
<1> DEFINE Inv == FrameGood(js)
<1>1. Init => Inv
  BY FrameStarts DEF Init
<1>2. ASSUME Inv, [Next]_vars
      PROVE  Inv' /\ [Stays]_js
  <2>1. [Frame!Next]_js
    BY <1>2 DEF Next, vars
  <2>2. FrameGood(js')
    BY <1>2, <2>1, FrameGoesOn
  <2>3. [Stays]_js
    BY <1>2, <2>1, WorkIsKept
  <2> QED
    BY <2>2, <2>3
<1> HIDE DEF Inv
<1> QED
  BY <1>1, <1>2, PTL DEF Spec, Frame!WorkStays, Stays
================================================================================
