----------------------------- MODULE GraphAuthoring ----------------------------
(***************************************************************************)
(* The authored graph of one workflow and everyone who rewrites it: the    *)
(* canvas (PUT graph-definition), the edit chat, the undo of a chat edit,  *)
(* and PATCH, which shares the version counter.  They run in threads of    *)
(* the API and in worker processes, each in a transaction of its own at    *)
(* READ COMMITTED.  Run creation reads the graph in separate statements.   *)
(***************************************************************************)
EXTENDS Naturals, FiniteSets, Sequences, SequencesExt

CONSTANTS
    Puts, Patches, Chats, Undos,  \* the requests and chat messages
    Drafts,         \* the graphs people and the model propose
    MaxRuns,        \* bound on the runs created
    MaxEditFaults   \* bound on the processes that die

Edits == Puts \cup Patches \cup Chats \cup Undos

\* An undo is a request of its own.
ASSUME KindsAssumption == Undos \cap (Puts \cup Patches \cup Chats) = {}
\* The edges of a draft join its nodes.
ASSUME DraftsAssumption ==
    \A g \in Drafts : g \in [keys : SUBSET g.keys, edges : SUBSET (g.keys \X g.keys)]

VARIABLES
    nodes,      \* committed rows of workflow_nodes: [key, batch]
    links,      \* committed rows of workflow_edges: [batch, from, to]
    version,    \* workflows.version
    history,    \* the graphs committed so far; a row's batch is its place here
    edit,       \* what each request knows
    locks,      \* requests between their DELETEs and their end, in lock order
    mutation,   \* chat_mutations, by the message that made them
    reader,     \* the run being created
    snapshots,  \* graphs frozen into runs
    overlapped, \* a rewrite was loaded while another was under way
    editFaults

authoringVars == <<nodes, links, version, history, edit, locks, mutation, reader,
                   snapshots, overlapped, editFaults>>

NoGraph == [keys |-> {}, edges |-> {}]

\* Mutant: edges are matched by the keys of their ends.
ContentByKey(ns, ls) ==
    LET keys == {n.key : n \in ns}
    IN  [keys |-> keys, edges |-> {<<l.from, l.to>> : l \in
            {x \in ls : x.from \in keys /\ x.to \in keys}}]

\* What serialize_workflow_graph returns: edges whose two nodes were read.
Content(ns, ls) ==
    [keys |-> {n.key : n \in ns},
     edges |-> {<<l.from, l.to>> : l \in
                  {x \in ls : /\ [key |-> x.from, batch |-> x.batch] \in ns
                              /\ [key |-> x.to, batch |-> x.batch] \in ns}}]

NodeRows(graph, b) == {[key |-> k, batch |-> b] : k \in graph.keys}
\* Mutant: the edges are joined to the ids of the rows before.
LinkOldRows(graph, b) == {[batch |-> b - 1, from |-> e[1], to |-> e[2]] : e \in graph.edges}
LinkRows(graph, b) == {[batch |-> b, from |-> e[1], to |-> e[2]] : e \in graph.edges}

FreshEdit == [pc |-> "idle", seen |-> 0, rows |-> {}, read |-> NoGraph,
              draft |-> NoGraph, of |-> {}, wiped |-> {}, cut |-> {}]

NoMutation == [status |-> "none", before |-> NoGraph, after |-> NoGraph, version |-> 0]

AuthoringInit ==
    /\ nodes = {} /\ links = {}
    /\ version = 1
    /\ history = <<>>
    /\ edit = [e \in Edits |-> FreshEdit]
    /\ locks = <<>>
    /\ mutation = [c \in Chats |-> NoMutation]
    /\ reader = [pc |-> "idle", rows |-> {}, start |-> 0]
    /\ snapshots = {}
    /\ overlapped = FALSE
    /\ editFaults = 0

UnderWay(e) == edit[e].pc \notin {"idle", "ended", "failed", "committed"}

\* Another rewrite is between its load and its commit.
Meets(e) == overlapped \/ \E f \in Edits \ {e} : UnderWay(f)

Becomes(e, pc) == edit' = [edit EXCEPT ![e].pc = pc]
\* A request is in `locks` once at most.
Unlocked(e) ==
    IF e \in ToSet(locks) THEN RemoveAt(locks, CHOOSE i \in DOMAIN locks : locks[i] = e)
    ELSE locks

--------------------------------------------------------------------------------
(* Loading the workflow.  The ORM object is kept for the whole request and *)
(* never read again, so its version is what was loaded here.               *)

LoadForPut(e) ==
    /\ e \in Puts /\ edit[e].pc = "idle"
    /\ \E g \in Drafts :
         edit' = [edit EXCEPT ![e].pc = "drafted", ![e].seen = version, ![e].draft = g]
    /\ overlapped' = Meets(e)
    /\ UNCHANGED <<nodes, links, version, history, locks, mutation, reader, snapshots,
                   editFaults>>

LoadForPatch(e) ==
    /\ e \in Patches /\ edit[e].pc = "idle"
    /\ edit' = [edit EXCEPT ![e].pc = "named", ![e].seen = version]
    /\ overlapped' = Meets(e)
    /\ UNCHANGED <<nodes, links, version, history, locks, mutation, reader, snapshots,
                   editFaults>>

\* The chat job reads the version and the nodes, then the edges, for its prompt.
LoadForChat(e) ==
    /\ e \in Chats /\ edit[e].pc = "idle"
    /\ edit' = [edit EXCEPT ![e].pc = "reading", ![e].seen = version, ![e].rows = nodes]
    /\ overlapped' = Meets(e)
    /\ UNCHANGED <<nodes, links, version, history, locks, mutation, reader, snapshots,
                   editFaults>>

ReadEdges(e) ==
    /\ edit[e].pc = "reading"
    /\ edit' = [edit EXCEPT ![e].pc = "asking", ![e].read = Content(edit[e].rows, links)]
    /\ UNCHANGED <<nodes, links, version, history, locks, mutation, reader, snapshots,
                   overlapped, editFaults>>

\* Mutant: the version the mutation left is not asked for.
LoadForUndoAnyVersion(e, c) ==
    /\ e \in Undos /\ edit[e].pc = "idle"
    /\ mutation[c].status = "applied"
    /\ edit' = [edit EXCEPT ![e].pc = "drafted", ![e].seen = version,
                            ![e].draft = mutation[c].before, ![e].of = {c}]
    /\ overlapped' = Meets(e)
    /\ UNCHANGED <<nodes, links, version, history, locks, mutation, reader, snapshots,
                   editFaults>>

\* The route wants an applied mutation; undo_mutation wants the version it left.
LoadForUndo(e, c) ==
    /\ e \in Undos /\ edit[e].pc = "idle"
    /\ mutation[c].status = "applied"
    /\ IF version = mutation[c].version
       THEN /\ edit' = [edit EXCEPT ![e].pc = "drafted", ![e].seen = version,
                                    ![e].draft = mutation[c].before, ![e].of = {c}]
            /\ overlapped' = Meets(e)
       ELSE Becomes(e, "failed") /\ UNCHANGED overlapped
    /\ UNCHANGED <<nodes, links, version, history, locks, mutation, reader, snapshots,
                   editFaults>>

\* The proposal is refused unless it echoes the version of the prompt, which is
\* compared with the loaded object; unknown agents or approvers, a graph that is
\* no DAG, clarify and reject end the edit too.
ModelAnswers(e) ==
    /\ edit[e].pc = "asking"
    /\ \/ \E g \in Drafts :
            edit' = [edit EXCEPT ![e].pc = "drafted", ![e].draft = g]
       \/ Becomes(e, "failed")
    /\ UNCHANGED <<nodes, links, version, history, locks, mutation, reader, snapshots,
                   overlapped, editFaults>>

--------------------------------------------------------------------------------
(* replace_workflow_graph and update_workflow.                             *)

\* The DELETEs.  They wait for a transaction that has deleted edges; without
\* edges to wait for, the DELETE of the nodes has its snapshot already when it
\* meets the other's lock, and will not see the rows that one inserts.
Wipe(e) ==
    /\ edit[e].pc = "drafted"
    /\ \A f \in ToSet(locks) : edit[f].cut = {}
    /\ edit' = [edit EXCEPT ![e].pc = "wiped", ![e].wiped = nodes, ![e].cut = links]
    /\ locks' = Append(locks, e)
    /\ UNCHANGED <<nodes, links, version, history, mutation, reader, snapshots,
                   overlapped, editFaults>>

\* Nobody ahead in lock order holds a row this request wants to delete.
HasRows(e) ==
    \A i \in DOMAIN locks :
        \/ \E j \in 1..i : locks[j] = e
        \/ edit[locks[i]].wiped \cap edit[e].wiped = {}

\* The INSERTs, version + 1 and the commit; uq_workflow_nodes_key refuses a key
\* of a row that was committed since the DELETE.
Insert(e) ==
    LET left == nodes \ edit[e].wiped
        new  == NodeRows(edit[e].draft, Len(history) + 1)
    IN  /\ edit[e].pc = "wiped" /\ HasRows(e)
        /\ locks' = Unlocked(e)
        /\ IF \E n \in left : n.key \in edit[e].draft.keys
           THEN /\ Becomes(e, "failed")
                /\ UNCHANGED <<nodes, links, version, history>>
           ELSE /\ nodes' = left \cup new
                /\ links' = {l \in links \ edit[e].cut : \E n \in left : n.batch = l.batch}
                              \cup LinkRows(edit[e].draft, Len(history) + 1)
                /\ version' = edit[e].seen + 1
                /\ history' = Append(history, edit[e].draft)
                /\ Becomes(e, IF e \in Puts THEN "ended" ELSE "committed")
        /\ UNCHANGED <<mutation, reader, snapshots, overlapped, editFaults>>

\* Mutant: PATCH leaves the version as it is.
PatchSilently(e) ==
    /\ edit[e].pc = "named"
    /\ version' = edit[e].seen
    /\ history' = Append(history, NoGraph)
    /\ Becomes(e, "ended")
    /\ UNCHANGED <<nodes, links, locks, mutation, reader, snapshots, overlapped, editFaults>>

Patch(e) ==
    /\ edit[e].pc = "named"
    /\ version' = edit[e].seen + 1
    /\ history' = Append(history, NoGraph)
    /\ Becomes(e, "ended")
    /\ UNCHANGED <<nodes, links, locks, mutation, reader, snapshots, overlapped, editFaults>>

\* A second commit: the chat's mutation row, or the undo's status.
Record(e) ==
    /\ edit[e].pc = "committed"
    /\ IF e \in Chats
       THEN mutation' = [mutation EXCEPT ![e] =
                [status |-> "applied", before |-> edit[e].read,
                 after |-> edit[e].draft, version |-> edit[e].seen + 1]]
       ELSE mutation' = [c \in Chats |-> IF c \in edit[e].of
                                        THEN [mutation[c] EXCEPT !.status = "undone"]
                                        ELSE mutation[c]]
    /\ Becomes(e, "ended")
    /\ UNCHANGED <<nodes, links, version, history, locks, reader, snapshots, overlapped,
                   editFaults>>

\* The process dies: an open transaction is rolled back; a chat job is delivered
\* again or not, a request is not.
EditDies(e) ==
    /\ editFaults < MaxEditFaults
    /\ edit[e].pc \notin {"idle", "ended", "failed"}
    /\ editFaults' = editFaults + 1
    /\ \/ Becomes(e, "failed")
       \/ e \in Chats /\ edit' = [edit EXCEPT ![e] = FreshEdit]
    /\ locks' = Unlocked(e)
    /\ UNCHANGED <<nodes, links, version, history, mutation, reader, snapshots, overlapped>>

--------------------------------------------------------------------------------
(* build_graph_snapshot, at the creation of a run.                         *)

ReadNodeRows ==
    /\ reader.pc = "idle" /\ Cardinality(snapshots) < MaxRuns
    /\ nodes # {}
    /\ reader' = [pc |-> "nodes", rows |-> nodes, start |-> Len(history)]
    /\ UNCHANGED <<nodes, links, version, history, edit, locks, mutation, snapshots,
                   overlapped, editFaults>>

ReadEdgeRows ==
    /\ reader.pc = "nodes"
    /\ snapshots' = snapshots \cup
          {[rows |-> reader.rows, graph |-> Content(reader.rows, links),
            calm |-> reader.start = Len(history)]}
    /\ reader' = [reader EXCEPT !.pc = "idle", !.rows = {}]
    /\ UNCHANGED <<nodes, links, version, history, edit, locks, mutation, overlapped,
                   editFaults>>

RewriteStep(e) ==
    \/ LoadForPut(e) \/ LoadForPatch(e) \/ LoadForChat(e) \/ ReadEdges(e)
    \/ \E c \in Chats : LoadForUndo(e, c)
    \/ ModelAnswers(e) \/ Wipe(e) \/ Insert(e) \/ Patch(e) \/ Record(e)

AuthoringNext ==
    \/ \E e \in Edits : RewriteStep(e) \/ EditDies(e)
    \/ ReadNodeRows \/ ReadEdgeRows

AuthoringSpec == AuthoringInit /\ [][AuthoringNext]_authoringVars

--------------------------------------------------------------------------------
Graph == [keys : SUBSET UNION {g.keys : g \in Drafts},
          edges : SUBSET UNION {g.edges : g \in Drafts}]

\* Node keys are unique in the workflow, and an edge joins two of its rows.
ReferencesHold ==
    /\ \A n, o \in nodes : n.key = o.key => n = o
    /\ \A l \in links : {[key |-> l.from, batch |-> l.batch],
                         [key |-> l.to, batch |-> l.batch]} \subseteq nodes

AuthoringTypeOK ==
    /\ ReferencesHold
    /\ version \in 1..(Len(history) + 1)
    /\ history \in Seq(Graph)
    /\ \A c \in Chats : /\ mutation[c].status \in {"none", "applied", "undone"}
                        /\ {mutation[c].before, mutation[c].after} \subseteq Graph
    /\ ToSet(locks) = {e \in Edits : edit[e].pc = "wiped"}

(* While rewrites do not meet, the version counts every one of them and the *)
(* live graph is one draft with all its nodes and edges: the version is     *)
(* then a name for the graph, which is what undo and the chat take it for.  *)
ApartGraphIsOneDraft ==
    overlapped \/
    /\ version = Len(history) + 1
    /\ nodes # {} => \E b \in DOMAIN history : /\ nodes = NodeRows(history[b], b)
                                              /\ links = LinkRows(history[b], b)

(* A run's snapshot holds whole drafts, and of each all its edges, unless   *)
(* the graph was rewritten between the two reads of build_graph_snapshot:   *)
(* then it may hold the old nodes without any edge, never with edges of the *)
(* new graph.                                                              *)
SnapshotsAreWhole ==
    \A s \in snapshots : \A b \in {n.batch : n \in s.rows} :
        LET edges == {e \in s.graph.edges : e[1] \in history[b].keys}
        IN  /\ NodeRows(history[b], b) \subseteq s.rows
            /\ edges = history[b].edges \/ (edges = {} /\ ~s.calm)

\* The undo u, committed, replaced the graph its edit made by the one that edit replaced.
TakesBack(u) ==
    edit[u].pc = "wiped" /\ edit'[u].pc = "committed" =>
        \A c \in edit[u].of : /\ Content(nodes, links) = mutation[c].after
                              /\ Content(nodes', links') = mutation[c].before

(* While rewrites do not meet, the undo of a chat edit replaces the graph   *)
(* that edit made, and no later one, by the graph that edit replaced.       *)
UndoTakesBackItsEdit ==
    [][~overlapped => \A u \in Undos : TakesBack(u)]_authoringVars

(* What the chat's version check is there for: a proposal is only applied   *)
(* to the version of the workflow the model was shown.                      *)
AppliedToWhatItRead ==
    [][\A c \in Chats : (edit[c].pc = "wiped" /\ edit'[c].pc = "committed")
          => version = edit[c].seen]_authoringVars
================================================================================
