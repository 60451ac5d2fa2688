------------------------------- MODULE WordCloud -------------------------------
(***************************************************************************)
(* A word cloud: the pages of some learners (word_cloud.js), and the       *)
(* handlers of the block (word_cloud.py).  The words of all the learners   *)
(* are one field, which a submission reads when it starts and saves whole  *)
(* when it ends.                                                           *)
(***************************************************************************)
EXTENDS Integers, FiniteSets, Functions

CONSTANTS Owner,        \* the learner each page is of
          good_word,    \* the word each entry stands for; "" is none
          num_inputs,
          num_top_words,
          MaxRequests,  \* bound: requests made in all
          MaxFlying     \* bound: requests at the same time

VARIABLE cloud

Pages == DOMAIN Owner
Learners == {Owner[p] : p \in Pages}
Entries == [1..num_inputs -> DOMAIN good_word]
Page == [open |-> FALSE, submitted |-> FALSE, inputs |-> TRUE, drawn |-> 0, your_words |-> {}]

Count(all, w) == IF w \in DOMAIN all THEN all[w] ELSE 0
Occurs(words, w) == Cardinality({i \in DOMAIN words : words[i] = w})
Added(all, words) ==
    [w \in DOMAIN all \cup Range(words) |-> Count(all, w) + Occurs(words, w)]

\* The words counted most often; which of those counted equally often, the order in the dict says.
top_dict(all) ==
    {t \in SUBSET DOMAIN all :
        /\ Cardinality(t) = (IF Cardinality(DOMAIN all) < num_top_words THEN Cardinality(DOMAIN all)
                             ELSE num_top_words)
        /\ \A w \in t, v \in DOMAIN all \ t : all[w] >= all[v]}

Fields(l) == [submitted |-> cloud.submitted[l], student_words |-> cloud.student_words[l],
              all_words |-> cloud.all_words, top_words |-> cloud.top_words]

\* The state told to the page; who has not submitted is told nothing else.
get_state(f) ==
    [submitted |-> f.submitted, drawable |-> TRUE, your_words |-> IF f.submitted THEN Range(f.student_words) ELSE {}]
Refused == [submitted |-> FALSE, drawable |-> FALSE, your_words |-> {}]

\* The words of the inputs that are not empty, in their order: one list.
filled(entries) == {i \in DOMAIN entries : good_word[entries[i]] # ""}
words_of(entries) ==
    {[k \in DOMAIN s |-> good_word[entries[s[k]]]] :
        s \in {s \in [1 .. Cardinality(filled(entries)) -> filled(entries)] :
                  \A i, j \in DOMAIN s : i < j => s[i] < s[j]}}

\* What a submission saves: the learner's words, added to all the words it read.
keeping(words, all) ==
    {[submitted |-> TRUE, student_words |-> words, all_words |-> all,
      top_words |-> [w \in t |-> Count(all, w)]] : t \in top_dict(all)}
saved(read, entries) ==
    UNION {keeping(words, Added(read.all_words, words)) : words \in words_of(entries)}
submit_state_TopOfBefore(read, entries) ==
    {[f EXCEPT !.top_words = [w \in t |-> read.all_words[w]]] :
        f \in saved(read, entries), t \in top_dict(read.all_words)}
submit_state_Raw(read, entries) ==
    {[f EXCEPT !.student_words = [i \in DOMAIN @ |-> entries[i]]] : f \in saved(read, entries)}
submit_state(read, entries) ==
    IF read.submitted THEN {read} ELSE saved(read, entries)
--------------------------------------------------------------------------------
Sent(s, p, op, entries) ==
    [s EXCEPT !.made = @ + 1,
              !.requests = @ \cup {[nr |-> s.made, page |-> p, op |-> op, status |-> "sent",
                                    entries |-> entries, read |-> <<>>, reply |-> Refused]},
              !.elsewhere = @ \cup (IF \E q \in Pages \ {p} : s.pages[q].open /\ Owner[q] = Owner[p]
                                    THEN {Owner[p]} ELSE {})]
May == cloud.made < MaxRequests /\ Cardinality(cloud.requests) < MaxFlying

\* The refusal of a second submission has no words to draw: the inputs go, and d3 throws.
\* A cloud drawn before stays: the selector of what is emptied lacks its "#".
drawWordCloud(s, p, r) ==
    [s EXCEPT !.pages[p].drawn = @ + 1, !.pages[p].your_words = r.your_words]
showWordCloud(s, p, r) ==
    LET hidden == [s EXCEPT !.pages[p].inputs = FALSE]
    IN  IF r.drawable THEN drawWordCloud(hidden, p, r) ELSE hidden

got(s, p, r) == IF r.submitted THEN showWordCloud(s, p, r) ELSE s

submitAnswer(s, p, entries) == Sent(s, p, "submit", entries)
--------------------------------------------------------------------------------
Init == cloud = [submitted |-> [l \in Learners |-> FALSE], student_words |-> [l \in Learners |-> <<>>],
                 all_words |-> <<>>, top_words |-> <<>>, pages |-> [p \in Pages |-> Page],
                 requests |-> {}, made |-> 0, overlapped |-> FALSE, lost |-> {}, elsewhere |-> {},
                 late |-> {}]

\* The page comes without inputs, but with its button, to who has submitted.
Open(p) == /\ May /\ ~cloud.pages[p].open
           /\ cloud' = Sent([cloud EXCEPT !.pages[p].open = TRUE,
                                          !.pages[p].submitted = cloud.submitted[Owner[p]]], p, "get", <<>>)
Save(p) == /\ May /\ cloud.pages[p].open /\ cloud.pages[p].inputs
           /\ \E entries \in Entries :
                 /\ cloud.pages[p].submitted => \A i \in DOMAIN entries : good_word[entries[i]] = ""
                 /\ cloud' = submitAnswer(cloud, p, entries)

\* A learner's words are looked up in the words of all, which may have lost them.
Get(r) ==
    LET f == Fields(Owner[r.page])
        raises == f.submitted /\ ~(Range(f.student_words) \subseteq DOMAIN f.all_words)
    IN  /\ r.op = "get" /\ r.status = "sent"
        /\ cloud' = [cloud EXCEPT
              !.requests = (@ \ {r}) \cup {[r EXCEPT !.status = IF raises THEN "raised" ELSE "answered",
                                                     !.reply = IF raises THEN Refused ELSE get_state(f)]},
              !.late = IF f.submitted /\ ~cloud.pages[r.page].submitted THEN @ \cup {r.page} ELSE @]
Starts(r) ==
    /\ r.op = "submit" /\ r.status = "sent"
    /\ cloud' = [cloud EXCEPT
          !.requests = (@ \ {r}) \cup {[r EXCEPT !.status = "running", !.read = Fields(Owner[r.page])]},
          !.overlapped = @ \/ \E q \in cloud.requests : q.status = "running"]
Ends(r) ==
    LET l == Owner[r.page]
    IN  /\ r.status = "running"
        /\ \E f \in submit_state(r.read, r.entries) :
              cloud' = [cloud EXCEPT
                 !.requests = (@ \ {r}) \cup {[r EXCEPT !.status = "answered", !.read = <<>>, !.entries = <<>>,
                                                        !.reply = IF f = r.read THEN Refused ELSE get_state(f)]},
                 !.submitted[l] = IF f = r.read THEN @ ELSE f.submitted,
                 !.student_words[l] = IF f = r.read THEN @ ELSE f.student_words,
                 !.all_words = IF f = r.read THEN @ ELSE f.all_words,
                 !.top_words = IF f = r.read THEN @ ELSE f.top_words]

Arrives(r) ==
    LET s == [cloud EXCEPT !.requests = @ \ {r}]
    IN  /\ r.status = "answered"
        /\ cloud' = IF r.op = "get" THEN got(s, r.page, r.reply) ELSE showWordCloud(s, r.page, r.reply)
\* No failure is handled: the page stays as it is.
Fails(r) ==
    /\ r.status # "running"
    /\ cloud' = [cloud EXCEPT !.requests = @ \ {r}, !.lost = @ \cup {Owner[r.page]}]

Next ==
    \/ \E p \in Pages : Open(p) \/ Save(p)
    \/ \E r \in cloud.requests : Get(r) \/ Starts(r) \/ Ends(r) \/ Arrives(r) \/ Fails(r)

Spec == Init /\ [][Next]_cloud
--------------------------------------------------------------------------------
TypeOK == /\ \A w \in DOMAIN cloud.all_words : cloud.all_words[w] \in Nat \ {0}
          /\ \A l \in Learners : DOMAIN cloud.student_words[l] \subseteq 1 .. num_inputs

(***************************************************************************)
(* The counts are of the words the learners have given, however often they *)
(* clicked, from wherever, and whatever was lost; unless two submissions   *)
(* overlapped on the server.                                               *)
(***************************************************************************)
CountsAreWords ==
    ~cloud.overlapped => \A w \in {good_word[e] : e \in DOMAIN good_word} \ {""} :
        Count(cloud.all_words, w)
            = Cardinality({given \in Learners \X (1..num_inputs) :
                              /\ given[2] \in DOMAIN cloud.student_words[given[1]]
                              /\ cloud.student_words[given[1]][given[2]] = w})

\* The words shown are those counted most often, with their counts, also when submissions overlapped.
TopIsTop ==
    /\ DOMAIN cloud.top_words \in top_dict(cloud.all_words)
    /\ \A w \in DOMAIN cloud.top_words : cloud.top_words[w] = cloud.all_words[w]

\* A learner who has submitted can be told so, unless submissions overlapped.
GetIsAnswered == ~cloud.overlapped => \A r \in cloud.requests : r.status # "raised"

(***************************************************************************)
(* A quiet page shows a cloud, with the learner's words, exactly if the    *)
(* learner has submitted, and the inputs otherwise; unless a request was   *)
(* lost, the cloud is on another page too, or submissions overlapped.      *)
(***************************************************************************)
SubmittedIsShown ==
    \A p \in Pages :
        /\ cloud.pages[p].open /\ ~cloud.overlapped /\ Owner[p] \notin cloud.lost \cup cloud.elsewhere
        /\ \A r \in cloud.requests : r.page # p
        => /\ cloud.pages[p].drawn > 0 <=> cloud.submitted[Owner[p]]
           /\ cloud.pages[p].inputs <=> ~cloud.submitted[Owner[p]]
           /\ cloud.pages[p].your_words = Range(cloud.student_words[Owner[p]])

\* Clicks on Save draw one cloud; only the state asked for at first, told after a submission, draws another.
OneCloud == \A p \in Pages : cloud.pages[p].drawn > 1 => cloud.overlapped \/ p \in cloud.late
================================================================================
