------------------------ MODULE MultiFileEditAbstract ------------------------
(***************************************************************************)
(* The multi-file editor as spec.md sections 3 and 4 describe it, with no  *)
(* DOM: an ordered list of working buffers built once from the pristine    *)
(* (path, content) pairs, a selected index, and the unsaved-changes        *)
(* warning.  The operations are initialize, selectBuffer, edit,            *)
(* resetBuffer and resetAll, and the state is discarded when the page is   *)
(* left; a read-only view or a popup adds no operation of its own.         *)
(*                                                                         *)
(* ResetSelects says whether resetBuffer(i) also selects buffer i.         *)
(* spec.md has it refresh the view only "if index == currentIndex", which  *)
(* is ResetSelects = FALSE.                                                *)
(***************************************************************************)
EXTENDS Integers, Sequences

CONSTANTS
    Paths,          \* paths of server-supplied files
    Content,        \* possible buffer contents
    DevNull,        \* the placeholder path "/dev/null"
    NoFilesContent, \* the placeholder content "No files specified"
    ResetSelects    \* resetBuffer(i) selects buffer i

ASSUME ResetSelects \in BOOLEAN

VARIABLES
    initialized, \* initialize has run
    pristine,    \* the (path, content) pairs, in order
    buffers,     \* working buffers [path, content, dirty], in order
    current,     \* selected buffer, 0-based
    warning      \* the unsaved-changes warning is armed

vars == <<initialized, pristine, buffers, current, warning>>

Pair == [path : Paths, content : Content]

Idx(s) == 0 .. Len(s) - 1

\* Working copies of the pairs, or the single placeholder buffer.
Fresh(pairs) ==
    IF pairs = << >>
    THEN << [path |-> DevNull, content |-> NoFilesContent, dirty |-> FALSE] >>
    ELSE [j \in DOMAIN pairs |->
            [path |-> pairs[j].path, content |-> pairs[j].content, dirty |-> FALSE]]

Init ==
    /\ initialized = FALSE
    /\ pristine = << >>
    /\ buffers = << >>
    /\ current = 0
    /\ warning = FALSE

Initialize ==
    /\ ~initialized
    /\ initialized' = TRUE
    /\ pristine' \in Seq(Pair)
    /\ buffers' = Fresh(pristine')
    /\ current' = 0
    /\ UNCHANGED warning

SelectBuffer(i) ==
    /\ initialized
    /\ i \in Idx(buffers)
    /\ current' = i
    /\ UNCHANGED <<initialized, pristine, buffers, warning>>

Edit(c) ==
    /\ initialized
    /\ buffers' = [buffers EXCEPT ![current + 1].content = c,
                                  ![current + 1].dirty = TRUE]
    /\ warning' = TRUE
    /\ UNCHANGED <<initialized, pristine, current>>

ResetBuffer(i) ==
    /\ initialized
    /\ i \in Idx(pristine)
    /\ buffers' = [buffers EXCEPT ![i + 1] = Fresh(pristine)[i + 1]]
    /\ current' = IF ResetSelects THEN i ELSE current
    /\ UNCHANGED <<initialized, pristine, warning>>

ResetAll ==
    /\ initialized
    /\ buffers' = Fresh(pristine)
    /\ current' = 0
    /\ warning' = FALSE
    /\ UNCHANGED <<initialized, pristine>>

\* "discarded on navigation" (section 3, Lifecycle).
Discard ==
    /\ initialized' = FALSE
    /\ pristine' = << >>
    /\ buffers' = << >>
    /\ current' = 0
    /\ warning' = FALSE

Next ==
    \/ Initialize
    \/ \E i \in Idx(buffers) : SelectBuffer(i) \/ ResetBuffer(i)
    \/ \E c \in Content : Edit(c)
    \/ ResetAll
    \/ Discard

Spec == Init /\ [][Next]_vars

=============================================================================
