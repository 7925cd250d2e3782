-------------------------- MODULE DocumentLifecycle --------------------------
(***************************************************************************)
(* What the ingestion subsystem promises about a document, seen from the   *)
(* outside: its status column and which of its chunks both search stores   *)
(* hold.  Outbox.tla (API, outbox table, Celery relay) implements this.    *)
(***************************************************************************)
EXTENDS Naturals

CONSTANTS Docs,         \* document ids
          ChunkCount    \* documents.chunk_count, the chunks of a document

VARIABLES documents,    \* status column per document, "absent" before upload
          indexed       \* <<d, i>>: chunk i of d is in Qdrant and Elasticsearch

lifecycleVars == <<documents, indexed>>

Chunks == 0 .. ChunkCount - 1
ChunksOf(d) == {d} \X Chunks

LifecycleInit ==
  /\ documents = [d \in Docs |-> "absent"]
  /\ indexed = {}

Upload(d) ==
  /\ documents[d] = "absent"
  /\ documents' = [documents EXCEPT ![d] = "processing"]
  /\ UNCHANGED indexed

\* A chunk becomes searchable some time after its document was accepted.
Index(d, i) ==
  /\ documents[d] # "absent"
  /\ indexed' = indexed \cup {<<d, i>>}
  /\ UNCHANGED documents

\* "ready" is announced only when nothing of the document is missing.
Announce(d) ==
  /\ documents[d] = "processing"
  /\ ChunksOf(d) \subseteq indexed
  /\ documents' = [documents EXCEPT ![d] = "ready"]
  /\ UNCHANGED indexed

RequestDelete(d) ==
  /\ documents[d] \in {"processing", "ready"}
  /\ documents' = [documents EXCEPT ![d] = "deleting"]
  /\ UNCHANGED indexed

\* Chunks disappear only after a deletion was requested.
Remove(d, gone) ==
  /\ documents[d] = "deleting"
  /\ indexed' = indexed \ gone
  /\ UNCHANGED documents

LifecycleNext ==
  \E d \in Docs :
    \/ Upload(d) \/ Announce(d) \/ RequestDelete(d)
    \/ \E i \in Chunks : Index(d, i)
    \/ \E gone \in SUBSET ChunksOf(d) : Remove(d, gone)

LifecycleSpec == LifecycleInit /\ [][LifecycleNext]_lifecycleVars
=============================================================================
