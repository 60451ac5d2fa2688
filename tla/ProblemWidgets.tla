----------------------------- MODULE ProblemWidgets -----------------------------
(***************************************************************************)
(* What a problem is drawn with: the scripts its inputs ask for            *)
(* (javascript_loader.js), long output that is unfolded (collapsible.js),  *)
(* and an annotation input, whose tags and comment are kept together in    *)
(* one hidden value (annotationinput.js).                                  *)
(***************************************************************************)
EXTENDS Integers, Sequences, FiniteSets, SequencesExt

CONSTANTS Tags, Comments  \* of the annotation

VARIABLE widgets

Sources == {"a", "b", "unsafe"}
--------------------------------------------------------------------------------
\* completed[i]: placeholder i is done; called: how often the callback was.
completionHandler_First(s, i) ==
    LET now == [s EXCEPT !.completed[i] = TRUE]
    IN  IF ~s.callbackCalled THEN [now EXCEPT !.callbackCalled = TRUE, !.called = @ + 1] ELSE now
completionHandler(s, i) ==
    LET now == [s EXCEPT !.completed[i] = TRUE]
    IN  IF (\A j \in DOMAIN now.completed : now.completed[j]) /\ ~s.callbackCalled
        THEN [now EXCEPT !.callbackCalled = TRUE, !.called = @ + 1] ELSE now

\* A script asked for twice is loaded once: the second placeholder is done at once, as an unsafe one is.
Loads(placeholders, i) ==
    placeholders[i] # "unsafe" /\ \A j \in 1 .. i - 1 : placeholders[j] # placeholders[i]
executeModuleScripts(placeholders) ==
    LET loading == {i \in DOMAIN placeholders : Loads(placeholders, i)}
    IN  [placeholders |-> placeholders, completed |-> [i \in DOMAIN placeholders |-> i \notin loading],
         callbackCalled |-> placeholders # <<>> /\ loading = {},
         called |-> IF loading = {} THEN 1 ELSE 0, loading |-> loading, ran |-> {}]

\* The texts of the links at the top and at the bottom; open: the class.
setCollapsibles(translated) ==
    [translated |-> translated, text |-> [link \in {"top", "bottom"} |-> IF translated THEN "gettext" ELSE "open_text"],
     longform |-> FALSE, open |-> FALSE]
toggleFull(s, link) ==
    LET new_text == IF s.text[link] = "open_text" THEN "close_text" ELSE "open_text"
    IN  [s EXCEPT !.longform = ~@, !.open = ~@, !.text = [l \in DOMAIN @ |-> new_text]]

\* value is what is sent: null until the first answer, later both parts.
loadValue(s) == IF s.value = <<>> THEN <<[options |-> {}, comment |-> ""]>> ELSE s.value
onChangeComment(s) ==
    [s EXCEPT !.value = <<[loadValue(s)[1] EXCEPT !.comment = s.textarea]>>]
onClickTag(s, tag) ==
    LET on == tag \notin s.selected
    IN  [s EXCEPT !.value = <<[loadValue(s)[1] EXCEPT !.options = IF on THEN {tag} ELSE {}]>>,
                  !.selected = IF on THEN {tag} ELSE {}]
--------------------------------------------------------------------------------
Init ==
    \E placeholders \in UNION {[1 .. n -> Sources] : n \in 0 .. 3}, translated \in BOOLEAN :
        widgets = [scripts |-> executeModuleScripts(placeholders),
                   output |-> setCollapsibles(translated),
                   annotation |-> [value |-> <<>>, selected |-> {}, textarea |-> "",
                                   changed |-> FALSE]]

ScriptLoads ==
    \E i \in widgets.scripts.loading :
        LET s == widgets.scripts
            now == [s EXCEPT !.loading = @ \ {i}, !.ran = @ \cup {s.placeholders[i]}]
        IN  widgets' = [widgets EXCEPT !.scripts = completionHandler(now, i)]
ToggleFull ==
    \E link \in {"top", "bottom"} : widgets' = [widgets EXCEPT !.output = toggleFull(@, link)]

\* What is typed is a change when the textarea is left, as it is for a click elsewhere.
WriteComment ==
    \E comment \in Comments \ {widgets.annotation.textarea} :
        widgets' = [widgets EXCEPT !.annotation.textarea = comment, !.annotation.changed = TRUE]
ChangeComment ==
    /\ widgets.annotation.changed
    /\ widgets' = [widgets EXCEPT !.annotation = [onChangeComment(@) EXCEPT !.changed = FALSE]]
ClickTag ==
    \E tag \in Tags :
        /\ ~widgets.annotation.changed
        /\ widgets' = [widgets EXCEPT !.annotation = onClickTag(@, tag)]

Next == ScriptLoads \/ ToggleFull \/ WriteComment \/ ChangeComment \/ ClickTag
Spec == Init /\ [][Next]_widgets
--------------------------------------------------------------------------------
\* A placeholder is done when its script was loaded, or another asks for the same.
TypeOK ==
    LET s == widgets.scripts
    IN  \A i \in DOMAIN s.completed : s.completed[i] <=> i \notin s.loading

(***************************************************************************)
(* The problem is bound once, and not before every script it asks for has  *)
(* run, also when two inputs ask for the same one.                         *)
(***************************************************************************)
BoundWhenLoaded ==
    LET s == widgets.scripts
    IN  /\ s.called <= 1
        /\ s.called = 1 => ToSet(s.placeholders) \ {"unsafe"} = s.ran
        /\ s.loading = {} => s.called = 1

\* Both links say what a click on either of them does (but not in another language: README).
LinksTell ==
    LET s == widgets.output
    IN  ~s.translated => \A link \in DOMAIN s.text : (s.text[link] = "close_text") = s.open

\* What is sent is what is shown: the tag that is selected, and the comment.
AnnotationIsSent ==
    LET s == widgets.annotation
    IN  s.value # <<>> /\ ~s.changed
            => s.value[1].options = s.selected /\ s.value[1].comment = s.textarea
================================================================================
