------------------------------ MODULE MCTraces ------------------------------
(***************************************************************************)
(* Instances of the components that record a session, read it back and     *)
(* show it: TraceExport, TraceMetadata, TraceCapture, DiscussionFiles,     *)
(* Inspection, StoreRuntime and EditorSession. They have no variable in    *)
(* common, and the properties of each speak of its own, so that running    *)
(* them one at a time visits every state that matters to a property: part  *)
(* is chosen at the start, and the others stay where they are. A bound:    *)
(* notes and submitted records are MaxNotes together.                      *)
(***************************************************************************)
EXTENDS TraceExport, TraceMetadata, TraceCapture, DiscussionFiles, Inspection, StoreRuntime,
        EditorSession

VARIABLE part

Init == /\ ExportInit /\ NotesInit /\ CaptureInit
        /\ FilesInit /\ InspectionInit /\ RuntimeInit /\ EditorInit
        /\ part \in {"export", "notes", "capture", "files", "inspection", "runtime", "editor"}
        /\ part # "export" => destinations = {"local"}      \* one choice is enough
        /\ part # "editor" => ~startupWaits

Exports ==
    /\ part = "export" /\ ExportNext
    /\ UNCHANGED <<part, noteVars, captureVars, fileVars, inspectionVars, runtimeVars, editorVars>>
Annotates ==
    /\ part = "notes" /\ NotesNext
    /\ Cardinality(listed' \cup messages') + Cardinality(submitted') <= MaxNotes
    /\ UNCHANGED <<part, exportVars, captureVars, fileVars, inspectionVars, runtimeVars,
                   editorVars>>
Observes ==
    /\ part = "capture" /\ CaptureNext
    /\ UNCHANGED <<part, exportVars, noteVars, fileVars, inspectionVars, runtimeVars, editorVars>>
Discusses ==
    /\ part = "files" /\ FilesNext
    /\ UNCHANGED <<part, exportVars, noteVars, captureVars, inspectionVars, runtimeVars,
                   editorVars>>
Inspects ==
    /\ part = "inspection" /\ InspectionNext
    /\ UNCHANGED <<part, exportVars, noteVars, captureVars, fileVars, runtimeVars, editorVars>>
RunsTempo ==
    /\ part = "runtime" /\ RuntimeNext
    /\ UNCHANGED <<part, exportVars, noteVars, captureVars, fileVars, inspectionVars, editorVars>>
Edits ==
    /\ part = "editor" /\ EditorNext
    /\ UNCHANGED <<part, exportVars, noteVars, captureVars, fileVars, inspectionVars,
                   runtimeVars>>

Next == Exports \/ Annotates \/ Observes \/ Discusses \/ Inspects \/ RunsTempo \/ Edits
vars == <<part, exportVars, noteVars, captureVars, fileVars, inspectionVars, runtimeVars,
          editorVars>>
Spec == Init /\ [][Next]_vars
=============================================================================
