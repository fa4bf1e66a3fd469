------------------------------- MODULE Knowledge --------------------------------
(***************************************************************************)
(* The knowledge base: rows of documents, the external store that indexes  *)
(* them, the documents granted to agents, and the search of an agent.  The *)
(* background task of an upload and the request that deletes the document  *)
(* call the store between their reads and their commits.                   *)
(***************************************************************************)
EXTENDS Naturals, FiniteSets

CONSTANTS
    Docs,               \* POST /kb/documents, each with its document
    KbAgents,           \* agents
    MaxKnowledgeEvents  \* bound on deletes, grants, searches and faults

VARIABLES
    doc,        \* kb_documents: [row, ext], ext: external_document_id is set
    store,      \* the copies in the external store
    ingest,     \* how far the background task of each upload is
    removal,    \* DELETE of each document, and whether it read an external id
    agent,      \* agents: [row, rag], rag: references the tool `rag`
    grant,      \* agent_kb_documents
    granting,   \* the attachment an agent's form is about to write
    search,     \* what an agent's retrieval has read: [at, docs, ids, found]
    mishaps,    \* documents of which an answer of the store or a process was lost
    knowledgeEvents

knowledgeVars == <<doc, store, ingest, removal, agent, grant, granting, search, mishaps,
                   knowledgeEvents>>

NoSearch == [at |-> "idle", docs |-> {}, ids |-> {}, found |-> {}]

KnowledgeInit ==
    /\ doc = [d \in Docs |-> [row |-> "none", ext |-> FALSE]]
    /\ store = {}
    /\ ingest = [d \in Docs |-> "none"]
    /\ removal = [d \in Docs |-> [at |-> "idle", ext |-> FALSE]]
    /\ agent = [a \in KbAgents |-> [row |-> TRUE, rag |-> TRUE]]
    /\ grant = {}
    /\ granting = [a \in KbAgents |-> {}]
    /\ search = [a \in KbAgents |-> NoSearch]
    /\ mishaps = {}
    /\ knowledgeEvents = 0

HasRow(d) == doc[d].row \in {"processing", "indexed", "failed"}
Counts == knowledgeEvents < MaxKnowledgeEvents /\ knowledgeEvents' = knowledgeEvents + 1
Mishap(d) == Counts /\ mishaps' = mishaps \cup {d}

--------------------------------------------------------------------------------
(* Ingestion.                                                               *)

\* create_pending_document, and the task that follows the response.
UploadDocument(d) ==
    /\ doc[d].row = "none"
    /\ doc' = [doc EXCEPT ![d].row = "processing"]
    /\ ingest' = [ingest EXCEPT ![d] = "queued"]
    /\ UNCHANGED <<store, removal, agent, grant, granting, search, mishaps, knowledgeEvents>>

Ingests(d, at) == ingest' = [ingest EXCEPT ![d] = at]

StartIngest(d) ==
    /\ ingest[d] = "queued"
    /\ Ingests(d, IF HasRow(d) THEN "called" ELSE "done")
    /\ UNCHANGED <<doc, store, removal, agent, grant, granting, search, mishaps, knowledgeEvents>>

\* The store indexes the document, in time or after the call was given up.
StoreTakes(d) ==
    /\ ingest[d] \in {"called", "late"}
    /\ store' = store \cup {d}
    /\ Ingests(d, IF ingest[d] = "late" THEN "done" ELSE "taken")
    /\ UNCHANGED <<doc, removal, agent, grant, granting, search, mishaps, knowledgeEvents>>

\* The adapter answers success, or a failure of whatever kind, the store's or the
\* network's; after 300 seconds the store is still at it, or its answer is lost.
StoreAnswers(d) ==
    /\ \/ ingest[d] = "taken" /\ Ingests(d, "success") /\ UNCHANGED <<mishaps, knowledgeEvents>>
       \/ ingest[d] = "called" /\ Ingests(d, "failure") /\ UNCHANGED <<mishaps, knowledgeEvents>>
       \/ ingest[d] = "taken" /\ Ingests(d, "failure") /\ Mishap(d)
       \/ ingest[d] = "called" /\ Ingests(d, "timeout") /\ Mishap(d)
    /\ UNCHANGED <<doc, store, removal, agent, grant, granting, search>>

\* Mutant: an answer is an index.
SettledAlways(d) == [row |-> "indexed", ext |-> ingest[d] = "success"]
\* _run_ingest asks for the success of the answer.
Settled(d) == IF ingest[d] = "success" THEN [row |-> "indexed", ext |-> TRUE]
              ELSE [row |-> "failed", ext |-> doc[d].ext]

\* The commit of the outcome; the row may be gone, and the update then fails.
SettleIngest(d) ==
    /\ ingest[d] \in {"success", "failure", "timeout"}
    /\ doc' = IF HasRow(d) THEN [doc EXCEPT ![d] = Settled(d)] ELSE doc
    /\ Ingests(d, IF ingest[d] = "timeout" THEN "late" ELSE "done")
    /\ UNCHANGED <<store, removal, agent, grant, granting, search, mishaps, knowledgeEvents>>

\* A background task dies with its process, and nobody starts it again.
TaskDies(d) ==
    /\ ingest[d] \in {"queued", "called", "taken", "success", "failure"}
    /\ Mishap(d)
    /\ Ingests(d, "done")
    /\ UNCHANGED <<doc, store, removal, agent, grant, granting, search>>

--------------------------------------------------------------------------------
(* Deletion, in three steps.                                                *)

ReadForRemoval(d) ==
    /\ removal[d].at = "idle" /\ HasRow(d)
    /\ Counts
    /\ removal' = [removal EXCEPT ![d] = [at |-> "read", ext |-> doc[d].ext]]
    /\ UNCHANGED <<doc, store, ingest, agent, grant, granting, search, mishaps>>

\* rag.delete by the external id read before; a failure is not looked at.
RemoveFromStore(d) ==
    /\ removal[d].at = "read"
    /\ removal' = [removal EXCEPT ![d].at = "called"]
    /\ \/ store' = (IF removal[d].ext THEN store \ {d} ELSE store)
          /\ UNCHANGED <<mishaps, knowledgeEvents>>
       \/ Mishap(d) /\ UNCHANGED store
    /\ UNCHANGED <<doc, ingest, agent, grant, granting, search>>

\* The audit, then the delete of the row and, by cascade, of its grants; the
\* audit may fail and the process may die, and the row then stays.
RemoveRow(d) ==
    /\ removal[d].at = "called"
    /\ removal' = [removal EXCEPT ![d].at = "done"]
    /\ \/ /\ doc' = [doc EXCEPT ![d] = [row |-> "gone", ext |-> FALSE]]
          /\ grant' = {g \in grant : g[2] # d}
          /\ UNCHANGED <<mishaps, knowledgeEvents>>
       \/ Mishap(d) /\ UNCHANGED <<doc, grant>>
    /\ UNCHANGED <<store, ingest, agent, granting, search>>

--------------------------------------------------------------------------------
(* Agents, their grants and their searches.                                 *)

\* attach_agent_document: the agent, the document and the grant are looked up, then
\* the grant is inserted; a document deleted meanwhile fails the foreign key.
CheckGrant(a, d) ==
    /\ granting[a] = {} /\ agent[a].row /\ HasRow(d) /\ <<a, d>> \notin grant
    /\ Counts
    /\ granting' = [granting EXCEPT ![a] = {d}]
    /\ UNCHANGED <<doc, store, ingest, removal, agent, grant, search, mishaps>>

CommitGrant(a, d) ==
    /\ d \in granting[a]
    /\ grant' = IF HasRow(d) THEN grant \cup {<<a, d>>} ELSE grant
    /\ granting' = [granting EXCEPT ![a] = {}]
    /\ UNCHANGED <<doc, store, ingest, removal, agent, search, mishaps, knowledgeEvents>>

Detach(a, d) ==
    /\ agent[a].row /\ <<a, d>> \in grant
    /\ Counts
    /\ grant' = grant \ {<<a, d>>}
    /\ UNCHANGED <<doc, store, ingest, removal, agent, granting, search, mishaps>>

\* soft_delete_agent, and the tool `rag` taken from or given back to an agent.
ChangeAgent(a) ==
    /\ agent[a].row
    /\ Counts
    /\ agent' \in {[agent EXCEPT ![a].row = FALSE], [agent EXCEPT ![a].rag = ~@]}
    /\ UNCHANGED <<doc, store, ingest, removal, grant, granting, search, mishaps>>

Searches(a, s) == search' = [search EXCEPT ![a] = s]

\* kb_search: two gates, then the external ids, or the platform's when none is set.
ReadScope(a) ==
    LET docs == {d \in Docs : <<a, d>> \in grant}
    IN  /\ search[a].at = "idle" /\ agent[a].row
        /\ Counts
        /\ Searches(a, [NoSearch EXCEPT
               !.at = IF agent[a].rag /\ docs # {} THEN "scoped" ELSE "done", !.docs = docs])
        /\ UNCHANGED <<doc, store, ingest, removal, agent, grant, granting, mishaps>>

ReadExternalIds(a) ==
    /\ search[a].at = "scoped"
    /\ Searches(a, [search[a] EXCEPT !.at = "asks", !.ids = {d \in search[a].docs : doc[d].ext}])
    /\ UNCHANGED <<doc, store, ingest, removal, agent, grant, granting, mishaps, knowledgeEvents>>

\* The store knows no platform id.
AskStore(a) ==
    /\ search[a].at = "asks"
    /\ \E found \in SUBSET (store \cap search[a].ids) :
          Searches(a, [search[a] EXCEPT !.at = "done", !.found = found])
    /\ UNCHANGED <<doc, store, ingest, removal, agent, grant, granting, mishaps, knowledgeEvents>>

KnowledgeNext ==
    \/ \E d \in Docs : \/ UploadDocument(d) \/ StartIngest(d) \/ StoreTakes(d)
                       \/ StoreAnswers(d) \/ SettleIngest(d) \/ TaskDies(d)
                       \/ ReadForRemoval(d) \/ RemoveFromStore(d) \/ RemoveRow(d)
    \/ \E a \in KbAgents : \/ \E d \in Docs : CheckGrant(a, d) \/ CommitGrant(a, d) \/ Detach(a, d)
                           \/ ChangeAgent(a) \/ ReadScope(a) \/ ReadExternalIds(a) \/ AskStore(a)

KnowledgeSpec == KnowledgeInit /\ [][KnowledgeNext]_knowledgeVars

--------------------------------------------------------------------------------
\* The rows have their types, and a grant is of a document that has its row.
KnowledgeTypeOK ==
    /\ doc \in [Docs -> [row : {"none", "processing", "indexed", "failed", "gone"},
                         ext : BOOLEAN]]
    /\ store \subseteq Docs
    /\ \A g \in grant : HasRow(g[2])

(* The rows and the external store agree: what is said to be indexed is, and  *)
(* a copy belongs to a row that says so or is about to, unless a delete is on *)
(* its way, an answer or a process was lost, or the document was deleted      *)
(* while it was being ingested.  A search finds what was granted when it      *)
(* began, and nothing else.                                                   *)
StoreAgrees ==
    \A d \in Docs :
       /\ doc[d].row = "indexed" => \/ d \in store
                                    \/ removal[d].at = "called" \/ d \in mishaps
       /\ d \in store => \/ doc[d].row = "indexed"
                         \/ ingest[d] \in {"taken", "success"}
                         \/ removal[d].at # "idle" /\ ~removal[d].ext
                         \/ d \in mishaps
       /\ doc[d].row = "processing" => ingest[d] # "done" \/ d \in mishaps
       /\ \A a \in KbAgents : d \in search[a].found => d \in search[a].docs
================================================================================
