----------------------------- MODULE UploadForm -----------------------------
(***************************************************************************)
(* The upload form and the page around it (upload-form.component.ts,       *)
(* che-faccio.component.ts, api.service.ts): files are chosen or dropped,  *)
(* checked, confirmed, and sent one at a time; the form is disabled when   *)
(* the page is rendered again, after the event that asked for it.          *)
(***************************************************************************)
EXTENDS Naturals, Sequences, FiniteSets, SequencesExt

CONSTANTS
  Picks,       \* what may be chosen or dropped at once: sequences of files [name, kind, size]
  AcceptSets,  \* what accept may hold: sets of kinds, {} for no filter
  Limits,      \* what maxSize may be, 0 for no limit
  MaxJobs      \* bound: selections confirmed

Chosen == UNION {{files[i] : i \in DOMAIN files} : files \in Picks}
ASSUME UploadAssumption == \A files \in Picks : files \in Seq(Chosen)

VARIABLES
  accept, maxSize, multiple,  \* the inputs of the form
  selectedFiles,
  uploadMessage,              \* errorMessage of the form: "none" or why
  isDragging,
  isLoading,                  \* uploadLoading of the page
  rendered,                   \* isLoading as the form was last rendered: the button and the input
  uploads,                    \* the calls of uploadBlobs: [files, sent, state], state "running" or "done"
  store,                      \* the blobs the backend has: slug |-> file, slugs in order of arrival
  uploadedItems               \* what the page lists: [name, slug]

uploadVars == <<accept, maxSize, multiple, selectedFiles, uploadMessage, isDragging, isLoading, rendered, uploads, store, uploadedItems>>
inputs == <<accept, maxSize, multiple>>
page == <<isLoading, rendered, uploads, store, uploadedItems>>

ExtensionAllowed(f) == accept = {} \/ f.kind \in accept
TooLarge(f) == maxSize > 0 /\ f.size > maxSize

UploadInit ==
  /\ accept \in AcceptSets /\ maxSize \in Limits /\ multiple \in BOOLEAN
  /\ selectedFiles = <<>> /\ uploadMessage = "none" /\ isDragging = FALSE
  /\ isLoading = FALSE /\ rendered = FALSE
  /\ uploads = <<>> /\ store = <<>> /\ uploadedItems = <<>>

\* setFiles
SetFiles(files) ==
  IF \E i \in DOMAIN files : TooLarge(files[i])
  THEN selectedFiles' = <<>> /\ uploadMessage' = "tooLarge"
  ELSE selectedFiles' = files /\ uploadMessage' = "none"

Picked(files) == IF multiple \/ files = <<>> THEN files ELSE <<files[1]>>
\* A slip in which only the first file is looked at.
SetIfFirstAllowed(files) ==
  LET picked == Picked(files)
  IN SetFiles(IF picked = <<>> \/ ~ExtensionAllowed(picked[1]) THEN <<>> ELSE picked)
\* setFilesIfAllowed: a file of another type is told, and then setFiles([]) takes the
\* message away.
SetFilesIfAllowed(files) ==
  LET picked == Picked(files)
  IN SetFiles(IF \A i \in DOMAIN picked : ExtensionAllowed(picked[i]) THEN picked ELSE <<>>)

\* onFileSelected: the input, unless it was rendered disabled
FileSelected(files) ==
  /\ ~rendered
  /\ multiple \/ Len(files) <= 1
  /\ SetFilesIfAllowed(files)
  /\ UNCHANGED <<inputs, isDragging, page>>

\* onDragOver, onDragLeave and onDrop: while loading what is dropped is ignored.
DragOver ==
  /\ ~isLoading /\ isDragging' = TRUE
  /\ UNCHANGED <<inputs, selectedFiles, uploadMessage, page>>
DragLeave ==
  /\ isDragging /\ isDragging' = FALSE
  /\ UNCHANGED <<inputs, selectedFiles, uploadMessage, page>>
Drop(files) ==
  /\ isDragging' = FALSE
  /\ IF isLoading THEN UNCHANGED <<selectedFiles, uploadMessage>> ELSE SetFilesIfAllowed(files)
  /\ UNCHANGED <<inputs, page>>

\* onSubmit and onFilesConfirmed: the page starts to send what was selected.
Submit ==
  /\ ~rendered
  /\ IF selectedFiles = <<>>
     THEN /\ uploadMessage' = "noFile"
          /\ UNCHANGED <<isLoading, uploads>>
     ELSE /\ Len(uploads) < MaxJobs
          /\ uploadMessage' = "none"
          /\ isLoading' = TRUE
          /\ uploads' = Append(uploads, [files |-> selectedFiles, sent |-> <<>>, state |-> "running"])
  /\ UNCHANGED <<inputs, selectedFiles, isDragging, rendered, store, uploadedItems>>

\* uploadBlobs: one file after the other; the answer brings the slug.
FileSent(j) ==
  /\ uploads[j].state = "running" /\ Len(uploads[j].sent) < Len(uploads[j].files)
  /\ store' = Append(store, uploads[j].files[Len(uploads[j].sent) + 1])
  /\ uploads' = [uploads EXCEPT ![j].sent = Append(@, Len(store) + 1)]
  /\ UNCHANGED <<inputs, selectedFiles, uploadMessage, isDragging, isLoading, rendered, uploadedItems>>

Listed(job) == [i \in 1..Len(job.sent) |-> [name |-> job.files[i].name, slug |-> job.sent[i]]]
\* The end of onFilesConfirmed; where a file fails, the ones before it stay in the store.
UploadEnds(j, ok) ==
  /\ uploads[j].state = "running"
  /\ ok = (Len(uploads[j].sent) = Len(uploads[j].files))
  /\ uploadedItems' = uploadedItems \o IF ok THEN Listed(uploads[j]) ELSE <<>>
  /\ uploads' = [uploads EXCEPT ![j].state = "done"]
  /\ isLoading' = FALSE
  /\ UNCHANGED <<inputs, selectedFiles, uploadMessage, isDragging, rendered, store>>

Render ==
  /\ rendered # isLoading
  /\ rendered' = isLoading
  /\ UNCHANGED <<inputs, selectedFiles, uploadMessage, isDragging, isLoading, uploads, store, uploadedItems>>

UploadNext ==
  \/ \E files \in Picks : FileSelected(files) \/ Drop(files)
  \/ DragOver \/ DragLeave
  \/ Submit
  \/ \E j \in DOMAIN uploads : FileSent(j) \/ \E ok \in BOOLEAN : UploadEnds(j, ok)
  \/ Render

UploadSpec == UploadInit /\ [][UploadNext]_uploadVars

-----------------------------------------------------------------------------
(* Properties *)

\* What reaches the backend was checked, whichever way it was given, and one file at a time
\* where the form takes one (CHANGELOG.md:1152, the filter that a click went around).
SentWasChecked ==
  /\ \A i \in DOMAIN store : ExtensionAllowed(store[i]) /\ ~TooLarge(store[i])
  /\ ~multiple => \A j \in DOMAIN uploads : Len(uploads[j].files) = 1

\* The page lists each blob once and under its own name, also when two selections were
\* confirmed before the button was disabled and their answers alternate.
ListedUnderItsName ==
  /\ \A i \in DOMAIN uploadedItems : uploadedItems[i].name = store[uploadedItems[i].slug].name
  /\ \A i, k \in DOMAIN uploadedItems : uploadedItems[i].slug = uploadedItems[k].slug => i = k

\* What is sent was checked and what is listed was sent (upload-form.component.ts).
UploadsSafe == SentWasChecked /\ ListedUnderItsName

\* What the form takes: selected, on its way and in the store there is nothing else.
Acceptable == {f \in Chosen : ExtensionAllowed(f) /\ ~TooLarge(f)}
UploadTypeOK ==
  /\ multiple \in BOOLEAN /\ selectedFiles \in Seq(Acceptable) /\ store \in Seq(Acceptable)
  /\ uploads \in Seq([files : Seq(Acceptable), sent : Seq(Nat), state : {"running", "done"}])
  /\ uploadedItems \in Seq([name : {f.name : f \in Chosen}, slug : Nat])
OneAtATime ==
  ~multiple => Len(selectedFiles) <= 1 /\ \A j \in DOMAIN uploads : Len(uploads[j].files) = 1

\* A call sends the files it was given in their order, and each gets a slug of its own.
SlugsAreTheirs ==
  \A j \in DOMAIN uploads :
    /\ Len(uploads[j].sent) <= Len(uploads[j].files)
    /\ \A i \in DOMAIN uploads[j].sent :
         /\ uploads[j].sent[i] \in DOMAIN store
         /\ store[uploads[j].sent[i]] = uploads[j].files[i]
SlugsDiffer ==
  \A j, k \in DOMAIN uploads : \A i \in DOMAIN uploads[j].sent, l \in DOMAIN uploads[k].sent :
    uploads[j].sent[i] = uploads[k].sent[l] => j = k /\ i = l

\* What is listed comes from a call that has ended, and once.
ItemsCome ==
  /\ \A i \in DOMAIN uploadedItems :
       \E j \in DOMAIN uploads : \E l \in DOMAIN uploads[j].sent :
         /\ uploads[j].state = "done" /\ uploads[j].sent[l] = uploadedItems[i].slug
         /\ uploadedItems[i].name = uploads[j].files[l].name
  /\ \A i, k \in DOMAIN uploadedItems : uploadedItems[i].slug = uploadedItems[k].slug => i = k

UploadIInv == UploadTypeOK /\ OneAtATime /\ SlugsAreTheirs /\ SlugsDiffer /\ ItemsCome

\* UploadFormLabels.typeNotAllowedError, "Errore: estensione/MIME non in `accept`": a choice
\* that is refused is told.
RefusalIsTold ==
  [][\A files \in Picks :
       ~isLoading /\ Drop(files) /\ files # <<>> /\ selectedFiles' = <<>> => uploadMessage' # "none"]_uploadVars
=============================================================================
