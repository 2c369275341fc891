--------------------------- MODULE MultiFileEdit ---------------------------
(***************************************************************************)
(* The multi-file editor widget of the portal                              *)
(* (webapp/js/multi-file-edit.js): a page-level MultiFileEdit object that  *)
(* holds the pristine copies the server supplied (originalCopies), the     *)
(* working copies (archive), the selected row (currentIndex), and the DOM  *)
(* it drew: the main textarea, the per-row dirty/Undo spans, the row       *)
(* classes, the onbeforeunload hook, and the optional full-screen popup    *)
(* window whose textarea mirrors its keystrokes back through the opener.   *)
(*                                                                         *)
(* Indices are 0-based as in the JavaScript; element j of a sequence s is  *)
(* s[j+1].  A text is <<origin, version>>: the path whose content it was   *)
(* derived from, and how far it has been edited (0 = as loaded).           *)
(***************************************************************************)
EXTENDS Integers, Sequences

CONSTANTS
    Paths,       \* paths the server may supply through addArchive
    DevNull,     \* the sentinel path "/dev/null"
    None,        \* a DOM element that has not been written yet
    MaxVersion   \* bound on the edit version of a text

ASSUME DevNull \notin Paths /\ MaxVersion \in Nat

VARIABLES
    phase,           \* "loading" until drawTable ran, then "shown"
    disabled,        \* this.disabled, set by the page before drawTable
    originalCopies,  \* this.originalCopies
    archive,         \* this.archive
    currentIndex,    \* this.currentIndex
    textarea,        \* value of testForm.textarea
    spanVisible,     \* visibility of dirty-span-j and reset-span-j (set together)
    rowClass,        \* className of file-row-j
    onbeforeunload,  \* window.onbeforeunload = askConfirm (TRUE) or 0 (FALSE)
    popupOpen,       \* the "full screen" window is open
    popupText,       \* value of the popup's textarea
    popupDisabled    \* the popup's textarea was written `disabled`

vars == <<phase, disabled, originalCopies, archive, currentIndex, textarea,
          spanVisible, rowClass, onbeforeunload, popupOpen, popupText,
          popupDisabled>>

Text == (Paths \cup {DevNull}) \X (0..MaxVersion)

\* The content the server delivers for path p.
Loaded(p) == <<p, 0>>

\* "No files specified"
NoFilesText == <<DevNull, 0>>

\* Element j (0-based) of a JavaScript array modelled as a sequence.
At(s, j) == s[j + 1]

Rows(s) == 0 .. Len(s) - 1

ArchiveFile(p, c) == [path |-> p, dirty |-> 0, contents |-> c]

(***************************************************************************)
(* What a keystroke can leave in a textarea holding t: text derived from   *)
(* the same file at any version, t itself included (a key that changes     *)
(* nothing, or an edit that is typed and then deleted).                    *)
(***************************************************************************)
Keystroke(t) == {<<t[1], v>> : v \in 0..MaxVersion}

initializeArchive ==
    IF Len(originalCopies) < 1
    THEN << ArchiveFile(DevNull, NoFilesText) >>
    ELSE [j \in 1..Len(originalCopies) |->
            ArchiveFile(originalCopies[j].path, originalCopies[j].contents)]

\* The classes generateLinks gives rows j..n-1, with its toggling `style`.
RECURSIVE LinkClasses(_, _, _)
LinkClasses(j, style, n) ==
    IF j >= n THEN << >>
    ELSE IF j = 0 THEN <<"SelectedRow">> \o LinkClasses(1, style, n)
    ELSE IF style # 0 THEN <<"OddRow">> \o LinkClasses(j + 1, 0, n)
    ELSE <<"EvenRow">> \o LinkClasses(j + 1, 1, n)

\* Variant whose row loop stops one row short.
generateLinksShort(n) == LinkClasses(0, 0, n - 1)

generateLinks(n) == LinkClasses(0, 0, n)

\* Variant with the two stripe names the other way round.
DeselectedClassSwapped(j) == IF j % 2 = 0 THEN "EvenRow" ELSE "OddRow"

\* The class setTextAreaValue gives back to the row it deselects.
DeselectedClass(j) == IF j % 2 = 0 THEN "OddRow" ELSE "EvenRow"

(***************************************************************************)
(* setTextAreaValue(id), reading the archive `arch` as it is when called.  *)
(***************************************************************************)
setTextAreaValue(id, arch) ==
    /\ rowClass' = [rowClass EXCEPT ![currentIndex + 1] =
                                    DeselectedClass(currentIndex),
                                 ![id + 1] = "SelectedRow"]
    /\ currentIndex' = id
    /\ textarea' = At(arch, id).contents

\* Variant whose loop stops one row short.
HideSpansShort(vis, n) == [j \in DOMAIN vis |-> IF j < n THEN FALSE ELSE vis[j]]

\* The loop of resetArchive hiding the spans of rows 0..n-1.
HideSpans(vis, n) == [j \in DOMAIN vis |-> IF j - 1 < n THEN FALSE ELSE vis[j]]

(***************************************************************************)
(* updateArchive, with the main textarea holding `val`.                    *)
(***************************************************************************)
updateArchive(val) ==
    /\ onbeforeunload' = TRUE
    /\ archive' = [archive EXCEPT ![currentIndex + 1].contents = val,
                                  ![currentIndex + 1].dirty = 1]
    /\ spanVisible' = [spanVisible EXCEPT ![currentIndex + 1] = TRUE]

-----------------------------------------------------------------------------
Init ==
    /\ phase = "loading"
    /\ disabled \in BOOLEAN
    /\ originalCopies = << >>
    /\ archive = << >>
    /\ currentIndex = 0
    /\ textarea = None
    /\ spanVisible = << >>
    /\ rowClass = << >>
    /\ onbeforeunload = FALSE
    /\ popupOpen = FALSE
    /\ popupText = None
    /\ popupDisabled = FALSE

\* The page calls addArchive(p, c) once per file before drawing.
addArchive(p) ==
    /\ phase = "loading"
    /\ p \notin {originalCopies[j].path : j \in DOMAIN originalCopies}
    /\ originalCopies' = Append(originalCopies, ArchiveFile(p, Loaded(p)))
    /\ UNCHANGED <<phase, disabled, archive, currentIndex, textarea,
                   spanVisible, rowClass, onbeforeunload, popupOpen, popupText, popupDisabled>>

\* drawTable: initializeArchive, then write the rows and the textarea.
drawTable ==
    /\ phase = "loading"
    /\ phase' = "shown"
    /\ archive' = initializeArchive
    /\ rowClass' = generateLinks(Len(archive'))
    /\ spanVisible' = [j \in 1..Len(archive') |-> FALSE]
    /\ textarea' = At(archive', 0).contents
    /\ UNCHANGED <<disabled, originalCopies, currentIndex, onbeforeunload,
                   popupOpen, popupText, popupDisabled>>

\* onclick of the path link of row id.
SelectFile(id) ==
    /\ phase = "shown"
    /\ setTextAreaValue(id, archive)
    /\ UNCHANGED <<phase, disabled, originalCopies, archive, spanVisible,
                   onbeforeunload, popupOpen, popupText, popupDisabled>>

\* onkeyup of the main textarea (absent when disabled).
KeyUp ==
    /\ phase = "shown"
    /\ ~disabled
    /\ \E val \in Keystroke(textarea) :
          /\ textarea' = val
          /\ updateArchive(val)
    /\ UNCHANGED <<phase, disabled, originalCopies, currentIndex, rowClass,
                   popupOpen, popupText, popupDisabled>>

\* Variant of resetFile that does not reselect (so does not refresh) the row.
resetFileNoRefresh(index) ==
    /\ phase = "shown"
    /\ spanVisible[index + 1]
    /\ index < Len(originalCopies)
    /\ index >= 0
    /\ archive' = [archive EXCEPT ![index + 1] =
                      ArchiveFile(At(originalCopies, index).path,
                                  At(originalCopies, index).contents)]
    /\ spanVisible' = [spanVisible EXCEPT ![index + 1] = FALSE]
    /\ UNCHANGED <<phase, disabled, originalCopies, onbeforeunload,
                   popupOpen, popupText, popupDisabled, rowClass, currentIndex, textarea>>

\* Variant of resetFile that clears the flag but keeps the edited text.
resetFileClearsFlag(index) ==
    /\ phase = "shown"
    /\ spanVisible[index + 1]
    /\ index < Len(originalCopies)
    /\ index >= 0
    /\ archive' = [archive EXCEPT ![index + 1].dirty = 0]
    /\ spanVisible' = [spanVisible EXCEPT ![index + 1] = FALSE]
    /\ setTextAreaValue(index, archive')
    /\ UNCHANGED <<phase, disabled, originalCopies, onbeforeunload,
                   popupOpen, popupText, popupDisabled>>

\* Variant of resetFile that also clears window.onbeforeunload.
resetFileDisarms(index) ==
    /\ phase = "shown"
    /\ spanVisible[index + 1]
    /\ index < Len(originalCopies)
    /\ index >= 0
    /\ archive' = [archive EXCEPT ![index + 1] =
                      ArchiveFile(At(originalCopies, index).path,
                                  At(originalCopies, index).contents)]
    /\ spanVisible' = [spanVisible EXCEPT ![index + 1] = FALSE]
    /\ setTextAreaValue(index, archive')
    /\ onbeforeunload' = FALSE
    /\ UNCHANGED <<phase, disabled, originalCopies, popupOpen, popupText, popupDisabled>>

(***************************************************************************)
(* onmouseup of the Undo span of row index.  A hidden span receives no     *)
(* mouse events; an index the early returns reject changes nothing, so it  *)
(* is left to stuttering.                                                  *)
(***************************************************************************)
resetFile(index) ==
    /\ phase = "shown"
    /\ spanVisible[index + 1]
    /\ index < Len(originalCopies)
    /\ index >= 0
    /\ archive' = [archive EXCEPT ![index + 1] =
                      ArchiveFile(At(originalCopies, index).path,
                                  At(originalCopies, index).contents)]
    /\ spanVisible' = [spanVisible EXCEPT ![index + 1] = FALSE]
    /\ setTextAreaValue(index, archive')
    /\ UNCHANGED <<phase, disabled, originalCopies, onbeforeunload,
                   popupOpen, popupText, popupDisabled>>

\* Variant of resetArchive that leaves window.onbeforeunload armed.
resetArchiveKeepsWarning ==
    /\ phase = "shown"
    /\ ~disabled
    /\ archive' = initializeArchive
    /\ setTextAreaValue(0, archive')
    /\ spanVisible' = HideSpans(spanVisible, Len(archive'))
    /\ UNCHANGED <<phase, disabled, originalCopies, onbeforeunload,
                   popupOpen, popupText, popupDisabled>>

\* onclick of the reset button (absent when disabled).
resetArchive ==
    /\ phase = "shown"
    /\ ~disabled
    /\ archive' = initializeArchive
    /\ setTextAreaValue(0, archive')
    /\ onbeforeunload' = FALSE
    /\ spanVisible' = HideSpans(spanVisible, Len(archive'))
    /\ UNCHANGED <<phase, disabled, originalCopies, popupOpen, popupText, popupDisabled>>

\* Variant of fullscreen that never writes the popup's textarea `disabled`.
fullscreenEditable ==
    /\ phase = "shown"
    /\ popupOpen' = TRUE
    /\ popupText' = At(archive, currentIndex).contents
    /\ popupDisabled' = FALSE
    /\ UNCHANGED <<phase, disabled, originalCopies, archive, currentIndex,
                   textarea, spanVisible, rowClass, onbeforeunload>>

(***************************************************************************)
(* fullscreen(): window.open with the name 'full screen' returns the open  *)
(* popup if there is one, and the writes replace its document: the popup   *)
(* is (re)written with the current file's contents and, on a disabled      *)
(* page, a disabled textarea.                                              *)
(***************************************************************************)
fullscreen ==
    /\ phase = "shown"
    /\ popupOpen' = TRUE
    /\ popupText' = At(archive, currentIndex).contents
    /\ popupDisabled' = disabled
    /\ UNCHANGED <<phase, disabled, originalCopies, archive, currentIndex,
                   textarea, spanVisible, rowClass, onbeforeunload>>

\* onkeyup of the popup's textarea: update_parent copies the popup's text
\* into the opener's textarea and calls opener.multiFileEdit.updateArchive.
\* While the opener is (re)loading, its testForm has no textarea yet and the
\* assignment at line 245 throws before updateArchive: nothing changes.
update_parent ==
    /\ popupOpen
    /\ ~popupDisabled
    /\ phase = "shown"
    /\ \E val \in Keystroke(popupText) :
          /\ popupText' = val
          /\ textarea' = val
          /\ updateArchive(val)
    /\ UNCHANGED <<phase, disabled, originalCopies, currentIndex, rowClass,
                   popupOpen, popupDisabled>>

\* The popup's Close link: self.close().
ClosePopup ==
    /\ popupOpen
    /\ popupOpen' = FALSE
    /\ UNCHANGED <<phase, disabled, originalCopies, archive, currentIndex,
                   textarea, spanVisible, rowClass, onbeforeunload, popupText,
                   popupDisabled>>

(***************************************************************************)
(* The opener page is left or reloaded: by a link, by the browser, or by   *)
(* the commit button, whose onclick calls commit() (an alert; its `return  *)
(* false` is not returned by the handler) and so does not cancel the       *)
(* form's submit.  An armed onbeforeunload (askConfirm) makes the browser  *)
(* ask, and the user may leave anyway; staying is a stutter.  The next     *)
(* load of the page builds a new MultiFileEdit in the same mode; the popup *)
(* is another window and survives, its opener now the new page.           *)
(***************************************************************************)
Unload ==
    /\ phase' = "loading"
    /\ originalCopies' = << >>
    /\ archive' = << >>
    /\ currentIndex' = 0
    /\ textarea' = None
    /\ spanVisible' = << >>
    /\ rowClass' = << >>
    /\ onbeforeunload' = FALSE
    /\ UNCHANGED <<disabled, popupOpen, popupText, popupDisabled>>

Next ==
    \/ \E p \in Paths : addArchive(p)
    \/ drawTable
    \/ \E id \in Rows(archive) : SelectFile(id)
    \/ KeyUp
    \/ \E index \in Rows(archive) : resetFile(index)
    \/ resetArchive
    \/ fullscreen
    \/ update_parent
    \/ ClosePopup
    \/ Unload

Spec == Init /\ [][Next]_vars

-----------------------------------------------------------------------------
FileRec == [path : Paths \cup {DevNull}, dirty : {0, 1}, contents : Text]

TypeOK ==
    /\ phase \in {"loading", "shown"}
    /\ disabled \in BOOLEAN
    /\ originalCopies \in Seq(FileRec)
    /\ archive \in Seq(FileRec)
    /\ textarea \in Text \cup {None}
    /\ spanVisible \in Seq(BOOLEAN)
    /\ rowClass \in Seq({"SelectedRow", "OddRow", "EvenRow"})
    /\ onbeforeunload \in BOOLEAN
    /\ popupOpen \in BOOLEAN
    /\ popupText \in Text \cup {None}
    /\ popupDisabled \in BOOLEAN
    /\ phase = "shown" =>
         /\ currentIndex \in Rows(archive)
         /\ Len(spanVisible) = Len(archive)
         /\ Len(rowClass) = Len(archive)

(***************************************************************************)
(* Once the table is drawn, the main textarea shows the working copy of    *)
(* the selected file: updateArchive writes the textarea back into          *)
(* archive[currentIndex] on every keyup, so a textarea left stale by       *)
(* resetFile, resetArchive or a selection would overwrite that file with   *)
(* the stale text at the next keystroke.                                   *)
(***************************************************************************)
TextareaShowsCurrent ==
    phase = "shown" => textarea = At(archive, currentIndex).contents

(***************************************************************************)
(* Leaving the page is guarded while any file is dirty: updateArchive arms *)
(* window.onbeforeunload and only resetArchive, which cleans every file,   *)
(* disarms it; resetFile of one file must leave it armed for the others.   *)
(***************************************************************************)
UnsavedWarningArmed ==
    (\E j \in Rows(archive) : At(archive, j).dirty = 1) => onbeforeunload

(***************************************************************************)
(* The "*" and Undo spans of a row are shown exactly while its working     *)
(* copy is dirty (updateArchive shows them, resetFile and resetArchive     *)
(* hide them), across the two loops and the sentinel row.                  *)
(***************************************************************************)
IndicatorsMatchDirty ==
    phase = "shown" =>
        \A j \in Rows(archive) : spanVisible[j + 1] <=> At(archive, j).dirty = 1

(***************************************************************************)
(* Exactly the selected row is highlighted, and every other row carries    *)
(* the stripe generateLinks drew for it: the parity setTextAreaValue uses  *)
(* to restore a deselected row agrees with generateLinks' toggle.          *)
(***************************************************************************)
RowHighlight ==
    phase = "shown" =>
        \A j \in Rows(archive) :
            rowClass[j + 1] = IF j = currentIndex THEN "SelectedRow"
                              ELSE IF j = 0 THEN DeselectedClass(0)
                              ELSE At(generateLinks(Len(archive)), j)

(***************************************************************************)
(* dirty is set by every keyup in either window, even one that leaves the  *)
(* text as loaded, so it over-approximates a change; it must never miss    *)
(* one.  A clean working copy holds its pristine contents, across popup    *)
(* keystrokes written through the opener's current row, Undo, the reset   *)
(* button and reloads.                                                     *)
(***************************************************************************)
CleanMeansPristine ==
    phase = "shown" =>
        \A j \in Rows(originalCopies) :
            At(archive, j).dirty = 0 =>
                At(archive, j).contents = At(originalCopies, j).contents

(***************************************************************************)
(* A disabled (read-only) editor is never modified: the main textarea is   *)
(* written `disabled` and without its reset button, and fullscreen writes  *)
(* the popup's textarea `disabled` too, so neither window can run          *)
(* updateArchive, and no file turns dirty and no unload warning is armed.  *)
(***************************************************************************)
ReadOnlyStaysClean ==
    disabled =>
        /\ ~onbeforeunload
        /\ \A j \in Rows(archive) : At(archive, j).dirty = 0

-----------------------------------------------------------------------------
(* Statements of the spec (spec.md) that the code does not keep.           *)

=============================================================================
