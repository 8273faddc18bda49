--------------------------- MODULE KnowledgeIndex ---------------------------
(***************************************************************************)
(* yby synapstor index (plugins/synapstor/internal/indexer, pkg/ai/        *)
(* vector_store.go): the knowledge files (UKIs) of a project, the index    *)
(* manifest with the hash of each indexed file, and the vector store that  *)
(* search and the chat assistant read.  The user edits files, and capture  *)
(* and study write new ones, while a run is under way; a run may fail or   *)
(* be killed at any step.                                                  *)
(*                                                                         *)
(* A text stands for its hash and for its vector.                          *)
(***************************************************************************)
EXTENDS Naturals

CONSTANTS UkiFiles, UkiTexts, NoText

ASSUME IndexConstants == NoText \notin UkiTexts

VARIABLES ukis,       \* the .md files of .synapstor/.uki and docs/wiki
          manifest,   \* .index_manifest.json; one that cannot be read counts as empty
          store,      \* the documents of the vector store
          indexing    \* the run in progress

indexVars == <<ukis, manifest, store, indexing>>

UkiContent == UkiTexts \union {NoText}
Nothing == [d \in UkiFiles |-> NoText]
NotIndexing == [pc |-> "idle", full |-> FALSE, old |-> Nothing, todo |-> {}, file |-> {}, hash |-> NoText,
                batch |-> Nothing, new |-> Nothing, agreed |-> FALSE, raced |-> FALSE, kept |-> FALSE]

IndexTypeOK ==
    /\ ukis \in [UkiFiles -> UkiContent] /\ manifest \in [UkiFiles -> UkiContent] /\ store \in [UkiFiles -> UkiContent]
    /\ indexing \in [pc : {"idle", "hash", "read", "delete", "embed", "add", "save"},
                     full : BOOLEAN, old : [UkiFiles -> UkiContent], todo : SUBSET UkiFiles,
                     file : SUBSET UkiFiles, hash : UkiContent, batch : [UkiFiles -> UkiContent],
                     new : [UkiFiles -> UkiContent], agreed : BOOLEAN, raced : BOOLEAN, kept : BOOLEAN]

IndexInit == ukis \in [UkiFiles -> UkiContent] /\ manifest = Nothing /\ store = Nothing /\ indexing = NotIndexing

Present(docs) == {d \in UkiFiles : docs[d] # NoText}
Without(docs, gone) == [d \in UkiFiles |-> IF d \in gone THEN NoText ELSE docs[d]]
With(docs, added, which) == [d \in UkiFiles |-> IF d \in which THEN added[d] ELSE docs[d]]

-----------------------------------------------------------------------------
(* The user, and the agent behind capture and study: a valid answer of the *)
(* model is written under the name it gives, over what is there; an        *)
(* invalid one is corrected once, and otherwise nothing is written.        *)

WriteUKI(d, t) ==
    /\ ukis' = [ukis EXCEPT ![d] = t]
    /\ UNCHANGED <<manifest, store, indexing>>

DeleteUKI(d) ==
    /\ ukis' = [ukis EXCEPT ![d] = NoText]
    /\ UNCHANGED <<manifest, store, indexing>>

-----------------------------------------------------------------------------
(* Indexer.Run.                                                            *)

(* With no file at all the run ends here, and removes nothing.             *)
StartIndexing(full) ==
    /\ indexing.pc = "idle" /\ Present(ukis) # {}
    /\ indexing' = [NotIndexing EXCEPT !.pc = "hash", !.full = full, !.old = manifest,
                                       !.todo = Present(ukis), !.agreed = (store = manifest)]
    /\ UNCHANGED <<ukis, manifest, store>>

(* A file that vanished is skipped.  One that has not changed keeps its    *)
(* entry; any other is read, in a second access.                           *)
HashFile(d) ==
    /\ indexing.pc = "hash" /\ d \in indexing.todo
    /\ indexing' =
         IF ukis[d] = NoText
         THEN [indexing EXCEPT !.todo = @ \ {d}]
         ELSE IF ~indexing.full /\ indexing.old[d] = ukis[d]
         THEN [indexing EXCEPT !.todo = @ \ {d}, !.new[d] = ukis[d]]
         ELSE [indexing EXCEPT !.todo = @ \ {d}, !.pc = "read", !.file = {d}, !.hash = ukis[d]]
    /\ UNCHANGED <<ukis, manifest, store>>

ReadFile(d) ==
    /\ indexing.pc = "read" /\ d \in indexing.file
    /\ indexing' =
         IF ukis[d] = NoText
         THEN [indexing EXCEPT !.pc = "hash", !.file = {}, !.hash = NoText]
         ELSE [indexing EXCEPT !.pc = "hash", !.file = {}, !.hash = NoText,
                               !.batch[d] = ukis[d], !.new[d] = indexing.hash,
                               !.raced = @ \/ ukis[d] # indexing.hash]
    /\ UNCHANGED <<ukis, manifest, store>>

Scanned ==
    /\ indexing.pc = "hash" /\ indexing.todo = {}
    /\ indexing' = [indexing EXCEPT !.pc = "delete"]
    /\ UNCHANGED <<ukis, manifest, store>>

(* The documents of files that are gone; errors are ignored one by one.    *)
DeleteRemoved ==
    LET removed == Present(indexing.old) \ Present(indexing.new) IN
    /\ indexing.pc = "delete"
    /\ \E gone \in SUBSET removed :
         /\ store' = Without(store, gone)
         /\ indexing' = [indexing EXCEPT !.kept = (gone # removed),
                           !.pc = IF Present(indexing.batch) = {} THEN "save" ELSE "embed"]
    /\ UNCHANGED <<ukis, manifest>>

(* VectorStore.AddDocuments: every vector first, then the documents, each  *)
(* persisted on its own; an error leaves some of them.                     *)
EmbedDocuments ==
    /\ indexing.pc = "embed"
    /\ indexing' = [indexing EXCEPT !.pc = "add"]
    /\ UNCHANGED <<ukis, manifest, store>>

\* mutant: the error of a document that cannot be stored is only logged
AddSome ==
    LET all == Present(indexing.batch) IN
    /\ indexing.pc = "add"
    /\ \E added \in SUBSET all :
         /\ store' = With(store, indexing.batch, added)
         /\ indexing' = [indexing EXCEPT !.pc = "save"]
    /\ UNCHANGED <<ukis, manifest>>

AddDocuments ==
    LET all == Present(indexing.batch) IN
    /\ indexing.pc = "add"
    /\ \E added \in SUBSET all :
         /\ store' = With(store, indexing.batch, added)
         /\ indexing' = IF added = all THEN [indexing EXCEPT !.pc = "save"] ELSE NotIndexing
    /\ UNCHANGED <<ukis, manifest>>

SaveManifest ==
    /\ indexing.pc = "save"
    /\ manifest' = indexing.new
    /\ indexing' = NotIndexing
    /\ UNCHANGED <<ukis, store>>

(* An error of the embedding provider or the store, or the process dies;   *)
(* while it writes the manifest, that is lost.                             *)
StopIndexing ==
    /\ indexing.pc # "idle"
    /\ indexing' = NotIndexing
    /\ manifest' \in IF indexing.pc = "save" THEN {manifest, Nothing} ELSE {manifest}
    /\ UNCHANGED <<ukis, store>>

IndexStep ==
    \/ \E full \in BOOLEAN : StartIndexing(full)
    \/ \E d \in UkiFiles : HashFile(d) \/ ReadFile(d)
    \/ Scanned \/ DeleteRemoved \/ EmbedDocuments \/ AddDocuments \/ SaveManifest \/ StopIndexing

IndexNext ==
    \/ IndexStep
    \/ \E d \in UkiFiles : DeleteUKI(d) \/ \E t \in UkiTexts : WriteUKI(d, t)

IndexSpec == IndexInit /\ [][IndexNext]_indexVars

-----------------------------------------------------------------------------
(* Indexer.Run and its manifest ("incremental"): whatever is edited in the *)
(* meantime, a run that completes leaves a manifest that is true of the    *)
(* store, so that no later run skips a file whose text is not there: when  *)
(* it was true of it before, or with --full.  Not if a file changes        *)
(* between its hash and its reading.  When it was true and no deletion     *)
(* failed, the store holds nothing else either.                            *)
CompleteRunAgrees ==
    [][indexing.pc = "save" /\ manifest' = indexing.new /\ ~indexing.raced =>
         /\ indexing.full \/ indexing.agreed =>
              \A d \in Present(manifest') : store'[d] = manifest'[d]
         /\ indexing.agreed /\ ~indexing.kept => store' = manifest']_indexVars
=============================================================================
