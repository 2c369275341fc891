----------------------- MODULE MCMultiFileEditRefines -----------------------
(***************************************************************************)
(* The widget (MultiFileEdit) against the editor of spec.md                *)
(* (MultiFileEditAbstract).  The mapping reads the working copies, the     *)
(* pristine copies once drawTable has run, the selection and               *)
(* window.onbeforeunload off the widget's state; addArchive, fullscreen    *)
(* and closing the popup are stuttering steps of the abstract editor, and  *)
(* a popup keystroke is an edit of the selected buffer, and leaving or     *)
(* reloading the page discards the editor.  Two paths keep the check of    *)
(* the temporal formula (no symmetry) small.                               *)
(***************************************************************************)
EXTENDS MCMultiFileEdit

CONSTANT MCResetSelects

MCRefPaths == {p1, p2}

Buffers ==
    [j \in DOMAIN archive |->
        [path |-> archive[j].path, content |-> archive[j].contents,
         dirty |-> archive[j].dirty = 1]]

PristinePairs ==
    IF phase = "shown"
    THEN [j \in DOMAIN originalCopies |->
            [path |-> originalCopies[j].path,
             content |-> originalCopies[j].contents]]
    ELSE << >>

Abs == INSTANCE MultiFileEditAbstract
         WITH Content <- Text,
              NoFilesContent <- NoFilesText,
              ResetSelects <- MCResetSelects,
              initialized <- phase = "shown",
              pristine <- PristinePairs,
              buffers <- Buffers,
              current <- currentIndex,
              warning <- onbeforeunload

(***************************************************************************)
(* Every step of the widget is a step of the spec.md editor: drawTable is  *)
(* initialize, a keystroke in either window is edit, the Undo span is      *)
(* resetBuffer, the reset button is resetAll (which also disarms the       *)
(* unload warning), Unload discards the editor, and nothing else changes   *)
(* buffers, selection or warning.                                          *)
(***************************************************************************)
ImplementsEditor == Abs!Spec
=============================================================================
