---------------------------------- MODULE Poll ----------------------------------
(***************************************************************************)
(* A poll: the pages of some learners (poll.js), and the handlers of the   *)
(* block (poll.py).  The counts of all the learners are one field: a       *)
(* request reads it when it starts and, if it changed it, saves it whole   *)
(* when it ends, so requests that overlap lose what the others counted.    *)
(***************************************************************************)
EXTENDS Integers, FiniteSets

CONSTANTS Owner,        \* the learner each page is of
          Answers,
          MaxRequests,  \* bound: requests made in all
          MaxFlying     \* bound: requests at the same time

VARIABLE poll

None == "none"
Pages == DOMAIN Owner
Learners == {Owner[p] : p \in Pages}
Page == [open |-> FALSE, rendered |-> FALSE, questionAnswered |-> FALSE, answered |-> {},
         stats |-> FALSE, resetButton |-> FALSE]
--------------------------------------------------------------------------------
\* What a request found when it started, and what it saves: the changed fields.
submit_answer_Again(read, answer) ==
    [voted |-> TRUE, poll_answer |-> answer, poll_answers |-> [read.poll_answers EXCEPT ![answer] = @ + 1]]
submit_answer(read, answer) ==
    IF read.voted THEN read
    ELSE [voted |-> TRUE, poll_answer |-> answer,
          poll_answers |-> [read.poll_answers EXCEPT ![answer] = @ + 1]]
handle_reset_state_KeepsAnswer(read) ==
    [voted |-> FALSE, poll_answer |-> read.poll_answer,
     poll_answers |-> [read.poll_answers EXCEPT ![read.poll_answer] = @ - 1]]
handle_reset_state(read) ==
    [voted |-> FALSE, poll_answer |-> None,
     poll_answers |-> [read.poll_answers EXCEPT ![read.poll_answer] = @ - 1]]

\* Who looks at a poll first saves its zeros.
dump_poll(read) ==
    [read EXCEPT !.poll_answers = [a \in Answers |-> IF a \in DOMAIN @ THEN @[a] ELSE 0]]

Fields(l) == [voted |-> poll.voted[l], poll_answer |-> poll.poll_answer[l],
              poll_answers |-> poll.poll_answers]
Request(p, op, arg) ==
    [nr |-> poll.made, page |-> p, op |-> op, arg |-> arg, status |-> "sent", read |-> <<>>,
     answer |-> None, voted |-> FALSE]
Sent(s, p, op, arg) ==
    [s EXCEPT !.made = @ + 1, !.requests = @ \cup {[Request(p, op, arg) EXCEPT !.nr = s.made]},
              !.doubled = @ \cup (IF \E r \in s.requests : r.page = p THEN {Owner[p]} ELSE {}),
              !.elsewhere = @ \cup (IF \E q \in Pages \ {p} : s.pages[q].open /\ Owner[q] = Owner[p]
                                    THEN {Owner[p]} ELSE {})]
May == poll.made < MaxRequests /\ Cardinality(poll.requests) < MaxFlying
--------------------------------------------------------------------------------
\* The page: what was answered before is marked, and its graph shown.
renderQuestion(s, p, r) ==
    [s EXCEPT !.pages[p] = [@ EXCEPT !.rendered = TRUE, !.questionAnswered = r.answer # None,
                                     !.answered = {r.answer} \ {None}, !.stats = r.answer # None,
                                     !.resetButton = s.reset /\ r.answer # None]]
submitAnswer(s, p, answer) ==
    Sent([s EXCEPT !.pages[p].questionAnswered = TRUE, !.pages[p].answered = @ \cup {answer}],
         p, "submit", answer)
\* A vote that was refused brings no counts, but the page keeps its mark.
answerShown(s, p, r) ==
    [s EXCEPT !.pages[p].stats = @ \/ r.voted, !.pages[p].resetButton = @ \/ s.reset]
resetShown(s, p) ==
    [s EXCEPT !.pages[p].questionAnswered = FALSE, !.pages[p].answered = {},
              !.pages[p].stats = FALSE, !.pages[p].resetButton = FALSE]
--------------------------------------------------------------------------------
Init ==
    \E reset \in BOOLEAN :
        poll = [reset |-> reset, voted |-> [l \in Learners |-> FALSE],
                poll_answer |-> [l \in Learners |-> None], poll_answers |-> <<>>,
                pages |-> [p \in Pages |-> Page], requests |-> {}, made |-> 0,
                overlapped |-> FALSE, lost |-> {}, doubled |-> {}, elsewhere |-> {}]

Open(p) == /\ May /\ ~poll.pages[p].open
           /\ poll' = Sent([poll EXCEPT !.pages[p].open = TRUE], p, "view", None)
Vote(p, a) == /\ May /\ poll.pages[p].rendered /\ ~poll.pages[p].questionAnswered
              /\ poll' = submitAnswer(poll, p, a)
Reset(p) == /\ May /\ poll.pages[p].resetButton
            /\ poll' = Sent(poll, p, "reset", None)

Starts(r) ==
    /\ r.status = "sent"
    /\ poll' = [poll EXCEPT
          !.requests = (@ \ {r}) \cup {[r EXCEPT !.status = "running", !.read = Fields(Owner[r.page])]},
          !.overlapped = @ \/ \E q \in poll.requests : q.status = "running"]

\* A reset of no vote raises, and nothing is saved.
Saves(r) ==
    CASE r.op = "submit" -> submit_answer(r.read, r.arg)
      [] r.op = "reset" -> handle_reset_state(r.read)
      [] r.op = "view" -> dump_poll(r.read)
      [] r.op = "get" -> r.read

\* Of what it has read it saves what it changed: a view the counts only.
Ends(r) ==
    LET l == Owner[r.page]
        raises == r.op = "reset" /\ r.read.poll_answer = None
        refused == r.op = "submit" /\ r.read.voted
        now == IF raises THEN r.read ELSE Saves(r)
        reply == [r EXCEPT !.status = IF raises THEN "raised" ELSE "answered", !.read = <<>>,
                           !.answer = now.poll_answer, !.voted = r.op = "submit" /\ ~refused]
        rest == [poll EXCEPT !.requests = (@ \ {r}) \cup {reply},
                             !.lost = IF raises \/ refused THEN @ \cup {l} ELSE @]
    IN  /\ r.status = "running"
        /\ poll' = IF now = r.read THEN rest
                   ELSE IF r.op = "view" THEN [rest EXCEPT !.poll_answers = now.poll_answers]
                   ELSE [rest EXCEPT !.poll_answers = now.poll_answers, !.voted[l] = now.voted,
                                     !.poll_answer[l] = now.poll_answer]

\* The page of a view asks for the state of now; until it comes there is no poll.
Arrives(r) ==
    LET s == [poll EXCEPT !.requests = @ \ {r}]
    IN  /\ r.status = "answered"
        /\ poll' = CASE r.op = "view" -> Sent(s, r.page, "get", None)
                     [] r.op = "get" -> renderQuestion(s, r.page, r)
                     [] r.op = "submit" -> answerShown(s, r.page, r)
                     [] r.op = "reset" -> resetShown(s, r.page)
Fails(r) ==
    /\ r.status = "raised" \/ r.op \notin {"view", "get"}
    /\ r.status # "running"
    /\ poll' = [poll EXCEPT !.requests = @ \ {r}, !.lost = @ \cup {Owner[r.page]}]

Next ==
    \/ \E p \in Pages : Open(p) \/ Reset(p) \/ \E a \in Answers : Vote(p, a)
    \/ \E r \in poll.requests : Starts(r) \/ Ends(r) \/ Arrives(r) \/ Fails(r)

Spec == Init /\ [][Next]_poll
--------------------------------------------------------------------------------
TypeOK == /\ \A l \in Learners : poll.poll_answer[l] \in Answers \cup {None}
          /\ \A p \in Pages : poll.pages[p].answered \subseteq Answers

(***************************************************************************)
(* Every vote is counted, once, whatever is clicked twice, lost, refused   *)
(* or done in another page; unless two requests overlapped on the server.  *)
(***************************************************************************)
CountsAreVotes ==
    ~poll.overlapped => \A a \in Answers :
        (IF a \in DOMAIN poll.poll_answers THEN poll.poll_answers[a] ELSE 0)
            = Cardinality({l \in Learners : poll.poll_answer[l] = a})

\* A learner has voted for an answer, or has not voted, also when requests overlapped.
VotedHasAnswer == \A l \in Learners : poll.voted[l] <=> poll.poll_answer[l] # None

(***************************************************************************)
(* A quiet page marks the answer the learner has given, and shows how many *)
(* gave which only then; unless a request was lost, refused or made while  *)
(* another was on its way, or the learner has the poll on another page.    *)
(***************************************************************************)
PageTellsVote ==
    \A p \in Pages :
        /\ poll.pages[p].rendered /\ \A r \in poll.requests : r.page # p
        /\ Owner[p] \notin poll.lost \cup poll.doubled \cup poll.elsewhere
        => /\ poll.pages[p].answered = {poll.poll_answer[Owner[p]]} \ {None}
           /\ poll.pages[p].stats <=> poll.voted[Owner[p]]
           /\ poll.pages[p].questionAnswered <=> poll.voted[Owner[p]]
================================================================================
