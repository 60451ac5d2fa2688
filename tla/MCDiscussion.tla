------------------------------ MODULE MCDiscussion ------------------------------
(***************************************************************************)
(* What learners do together: the parts of a discussion's page, polls and  *)
(* word clouds.  Each behaviour is about one of them, focus, and leaves    *)
(* the others where they start.                                            *)
(***************************************************************************)
EXTENDS Integers, Sequences, FiniteSets

CONSTANTS Thread, Responses, MaxClicks, MaxKinds,
          Threads, InitialSize, NextSize, Ids, NextId, MaxViews, MaxChanges,
          MaxPosts, Old, New, Pinned, Filters, Groups, PageSize, MaxRequests,
          Comments, MaxSaves,
          Answers, num_inputs, num_top_words, MaxVotes, MaxWords, MaxFlying

\* The responses of each post, what the posts are sorted by, and who is in which list.
Start == [t1 |-> <<1, 2, 3>>, t2 |-> <<4>>]
Rank == [activity |-> <<3, 1, 4, 2, 5>>, votes |-> <<2, 4, 1, 3, 0>>]
In == [all |-> 1 .. 5, unread |-> {1, 2, 4}, g |-> {2, 3, 4}]

\* Two learners, one of them with two pages.
Owner == [p1 |-> "l1", p2 |-> "l1", p3 |-> "l2"]
\* What the entries of a word cloud stand for once they are stripped and in lower case.
good_word == [A |-> "a", b |-> "b", blank |-> ""]

\* What the parts ask of their constants.
ASSUME DiscussionAssumption ==
    /\ Thread \notin Responses /\ IsFiniteSet(Responses)
    /\ DOMAIN Start = Threads /\ \A t \in Threads : Start[t] \in Seq(Ids)
    /\ InitialSize \in Nat \ {0} /\ NextSize \in Nat \ {0} /\ NextId \in Ids
    /\ Old \cap New = {} /\ Pinned \subseteq Old \cup New /\ PageSize \in Nat \ {0}
    /\ Filters \cup Groups \subseteq DOMAIN In
    /\ Comments \cap {"post", "response"} = {}
    /\ "none" \notin Answers /\ \E e \in DOMAIN good_word : good_word[e] = ""
    /\ {num_inputs, num_top_words, MaxVotes, MaxWords, MaxFlying, MaxClicks, MaxKinds,
        MaxViews, MaxChanges, MaxPosts, MaxRequests, MaxSaves} \subseteq Nat \ {0}

VARIABLES focus, act, resp, shell, list, edit, poll, cloud

Actions == INSTANCE DiscussionActions
Pages == INSTANCE DiscussionResponses
Shell == INSTANCE DiscussionShell
List == INSTANCE DiscussionList
Editing == INSTANCE DiscussionEditing
Votes == INSTANCE Poll WITH MaxRequests <- MaxVotes
Words == INSTANCE WordCloud WITH MaxRequests <- MaxWords

vars == <<focus, act, resp, shell, list, edit, poll, cloud>>

\* Where a part that is not in focus rests.
Init ==
    /\ focus \in {"actions", "responses", "shell", "list", "editing", "poll", "cloud"}
    /\ Actions!Init /\ (focus # "actions" => act.pressed = {} /\ ~act.endorsed)
    /\ Pages!Init /\ Shell!Init /\ List!Init
    /\ Editing!Init /\ (focus # "editing" => ~edit.closed)
    /\ Words!Init /\ Votes!Init /\ (focus # "poll" => ~poll.reset)

Next ==
    \/ focus = "actions" /\ Actions!Next /\ UNCHANGED <<focus, resp, shell, list, edit, poll, cloud>>
    \/ focus = "responses" /\ Pages!Next /\ UNCHANGED <<focus, act, shell, list, edit, poll, cloud>>
    \/ focus = "shell" /\ Shell!Next /\ UNCHANGED <<focus, act, resp, list, edit, poll, cloud>>
    \/ focus = "list" /\ List!Next /\ UNCHANGED <<focus, act, resp, shell, edit, poll, cloud>>
    \/ focus = "editing" /\ Editing!Next /\ UNCHANGED <<focus, act, resp, shell, list, poll, cloud>>
    \/ focus = "poll" /\ Votes!Next /\ UNCHANGED <<focus, act, resp, shell, list, edit, cloud>>
    \/ focus = "cloud" /\ Words!Next /\ UNCHANGED <<focus, act, resp, shell, list, edit, poll>>

Spec == Init /\ [][Next]_vars
--------------------------------------------------------------------------------
(***************************************************************************)
(* When a button was answered, the page says what the service keeps: its   *)
(* votes too, and whether a question has an answer.                        *)
(***************************************************************************)
ShownIsKept ==
    /\ Actions!TypeOK /\ Actions!ShownIsKept /\ Actions!OneAtATime
    /\ Actions!AnsweredHasAnswer /\ Actions!VotesAreCounted

\* The pages of responses skip none, and the list of posts counts those there are.
NothingSkipped == Pages!TypeOK /\ Pages!NothingSkipped /\ Pages!CountAgrees

(***************************************************************************)
(* The views take turns: one panel of the discussion is seen, that of the  *)
(* post only if there is one, one editor is open in a response, without    *)
(* the form for comments, and one view listens to the post.                *)
(***************************************************************************)
ViewsTakeTurns ==
    /\ Shell!TypeOK /\ Shell!OnePanel /\ Shell!ThreadPanelHasThread /\ Shell!ButtonTells
    /\ Editing!TypeOK /\ Editing!OneEditor /\ Editing!FormWaitsForEditor /\ Editing!HandledOnce

\* The list of posts is what its controls ask for, in their order, and complete after the last page.
ListIsAsAsked == List!TypeOK /\ List!ListIsAsAsked /\ List!AllAreListed

(***************************************************************************)
(* The counts that all learners share, of a poll and of a word cloud, are  *)
(* of what each of them gave, and their pages show it to those who did.    *)
(***************************************************************************)
CountsAreOfTheLearners ==
    /\ Votes!TypeOK /\ Votes!CountsAreVotes /\ Votes!VotedHasAnswer /\ Votes!PageTellsVote
    /\ Words!TypeOK /\ Words!CountsAreWords /\ Words!TopIsTop /\ Words!GetIsAnswered
    /\ Words!SubmittedIsShown /\ Words!OneCloud
================================================================================
