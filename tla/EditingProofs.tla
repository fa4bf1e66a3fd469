------------------------------ MODULE EditingProofs -----------------------------
(***************************************************************************)
(* What holds of the two artifacts people, the chat and undo rewrite, for  *)
(* any number of requests, messages, builders, drafts and versions of a    *)
(* schema: what a workflow's rows are and what a run freezes of them, what *)
(* a mini app serves, and what an undo puts back.                          *)
(***************************************************************************)
EXTENDS MCEditing, SequenceTheorems, TLAPS

(***************************************************************************)
(* GraphAuthoring: the rows of a workflow are whole drafts.                *)
(***************************************************************************)
\* A graph whose edges join its nodes.
Proper == {g \in Graph : g.edges \subseteq g.keys \X g.keys}
Row == [key : UNION {g.keys : g \in Drafts}, batch : Nat]
Link == UNION {LinkRows(g, b) : g \in Proper, b \in Nat}
EditPc == {"idle", "named", "reading", "asking", "drafted", "wiped", "committed", "ended",
           "failed"}
Rewrite == [pc : EditPc, seen : Nat, rows : SUBSET Row, read : Proper, draft : Proper,
            of : SUBSET Chats, wiped : SUBSET Row,
            cut : SUBSET Link]
Mutation == [status : {"none", "applied", "undone"}, before : Proper, after : Proper,
             version : Nat]

AuthoringTypes ==
    /\ nodes \subseteq Row /\ version \in Nat \ {0} /\ version <= Len(history) + 1
    /\ history \in Seq(Proper)
    /\ edit \in [Edits -> Rewrite]
    /\ \A e \in Edits : edit[e].seen <= Len(history) + 1
    /\ mutation \in [Chats -> Mutation]
    /\ reader \in [pc : {"idle", "nodes"}, rows : SUBSET Row, start : Nat]
    /\ reader.start <= Len(history)
    /\ overlapped \in BOOLEAN

RowsOf(b) == NodeRows(history[b], b)
\* Rows of which none is there without the others of its draft.
WholeDrafts(S) ==
    \A n \in S : n.batch \in DOMAIN history /\ n \in RowsOf(n.batch) /\ RowsOf(n.batch) \subseteq S
LinksOf(S) == UNION {LinkRows(history[n.batch], n.batch) : n \in S}
KeysApart(S) == \A n, o \in S : n.key = o.key => n = o

RowsAreDrafts ==
    /\ WholeDrafts(nodes) /\ KeysApart(nodes) /\ links = LinksOf(nodes)
    /\ \A e \in Edits : WholeDrafts(edit[e].wiped) /\ edit[e].cut = LinksOf(edit[e].wiped)
    /\ WholeDrafts(reader.rows) /\ KeysApart(reader.rows)
    /\ reader.pc = "nodes" /\ reader.start = Len(history) => reader.rows = nodes
    /\ \A s \in snapshots : WholeDrafts(s.rows)

\* The graph committed at place b is g, and is live if none came after.
Named(b, g) ==
    b \in DOMAIN history /\ history[b] = g /\ (b = Len(history) => nodes = RowsOf(b))

CommitIsNamed(c) ==
    edit[c].pc = "committed" => Named(edit[c].seen, edit[c].draft)
MutationIsNamed(c) ==
    mutation[c].status # "none" => Named(mutation[c].version - 1, mutation[c].after)

\* Rewrites did not meet.
RewritesApart ==
    ~overlapped =>
        /\ version = Len(history) + 1
        /\ \A e, f \in Edits : UnderWay(e) /\ UnderWay(f) => e = f
        /\ \A e \in Edits : UnderWay(e) => edit[e].seen = version
        /\ \A e \in Edits : edit[e].pc = "wiped" => edit[e].wiped = nodes
        /\ nodes # {} => \E b \in DOMAIN history : nodes = RowsOf(b)
        /\ \A c \in Chats : CommitIsNamed(c) /\ MutationIsNamed(c)

UndosFit ==
    /\ \A c \in Chats : mutation[c].status # "none" => edit[c].pc = "ended"
    /\ \A u \in Undos : edit[u].pc \notin {"reading", "asking"}
    /\ \A e \in Edits \ Undos : edit[e].of = {}
    /\ \A u \in Undos : edit[u].pc \in {"drafted", "wiped", "committed"} =>
          \A c \in edit[u].of : /\ mutation[c].status # "none"
                                /\ edit[u].seen = mutation[c].version
                                /\ edit[u].draft = mutation[c].before

AuthoringInv == AuthoringTypes /\ RowsAreDrafts /\ RewritesApart /\ UndosFit

LEMMA ProperGraphs ==
    /\ NoGraph \in Proper /\ Drafts \subseteq Proper
    /\ \A g \in Proper : /\ g = [keys |-> g.keys, edges |-> g.edges]
                         /\ g.edges \subseteq g.keys \X g.keys
<1>1. NoGraph \in Proper
  BY DEF NoGraph, Proper, Graph
<1>2. ASSUME NEW g \in Drafts PROVE g \in Proper
  <2>1. g \in [keys : SUBSET g.keys, edges : SUBSET (g.keys \X g.keys)]
    BY DraftsAssumption
  <2>2. g.keys \subseteq UNION {h.keys : h \in Drafts} /\ g.edges \subseteq UNION {h.edges : h \in Drafts}
    OBVIOUS
  <2>3. g = [keys |-> g.keys, edges |-> g.edges] /\ g.edges \subseteq g.keys \X g.keys
    BY <2>1
  <2> QED
    BY <2>2, <2>3 DEF Proper, Graph
<1>3. \A g \in Proper : g = [keys |-> g.keys, edges |-> g.edges] /\ g.edges \subseteq g.keys \X g.keys
  BY DEF Proper, Graph
<1> QED
  BY <1>1, <1>2, <1>3

LEMMA ContentIsProper ==
    ASSUME NEW ns \in SUBSET Row, NEW ls \in SUBSET Link
    PROVE  Content(ns, ls) \in Proper
<1> DEFINE c == Content(ns, ls)
<1>1. c.keys \subseteq UNION {g.keys : g \in Drafts}
  BY DEF Content, Row
<1>2. ASSUME NEW x \in c.edges PROVE x \in c.keys \X c.keys
  <2>1. PICK l \in ls : /\ x = <<l.from, l.to>> /\ [key |-> l.from, batch |-> l.batch] \in ns
                        /\ [key |-> l.to, batch |-> l.batch] \in ns
    BY DEF Content
  <2>2. PICK m \in ns, n \in ns : m.key = l.from /\ n.key = l.to
    BY <2>1
  <2>3. m.key \in c.keys /\ n.key \in c.keys
    BY DEF Content
  <2> QED
    BY <2>1, <2>2, <2>3
<1>3. ASSUME NEW x \in c.edges PROVE x \in UNION {g.edges : g \in Drafts}
  <2>1. PICK l \in ls : x = <<l.from, l.to>>
    BY DEF Content
  <2>2. PICK g \in Proper, b \in Nat : l \in LinkRows(g, b)
    BY DEF Link
  <2>3. PICK d \in g.edges : l = [batch |-> b, from |-> d[1], to |-> d[2]]
    BY <2>2 DEF LinkRows
  <2>4. d \in g.keys \X g.keys
    BY ProperGraphs
  <2>5. x = d
    BY <2>1, <2>3, <2>4
  <2>6. g.edges \subseteq UNION {h.edges : h \in Drafts}
    BY DEF Proper, Graph
  <2> QED
    BY <2>5, <2>6
<1>4. c = [keys |-> c.keys, edges |-> c.edges]
  BY DEF Content
<1> QED
  BY <1>1, <1>2, <1>3, <1>4 DEF Proper, Graph

LEMMA ContentOfRows ==
    ASSUME NEW g \in Proper, NEW b
    PROVE  Content(NodeRows(g, b), LinkRows(g, b)) = g
<1> DEFINE c == Content(NodeRows(g, b), LinkRows(g, b))
<1>1. c = [keys |-> c.keys, edges |-> c.edges] /\ g = [keys |-> g.keys, edges |-> g.edges]
  BY ProperGraphs DEF Content
<1>2. c.keys = g.keys
  <2>1. c.keys = {n.key : n \in NodeRows(g, b)}
    BY DEF Content
  <2>2. ASSUME NEW k \in g.keys PROVE k \in c.keys
    <3>1. [key |-> k, batch |-> b] \in NodeRows(g, b)
      BY DEF NodeRows
    <3>2. [key |-> k, batch |-> b].key = k
      OBVIOUS
    <3> QED
      BY <2>1, <3>1, <3>2
  <2>3. ASSUME NEW n \in NodeRows(g, b) PROVE n.key \in g.keys
    BY DEF NodeRows
  <2> QED
    BY <2>1, <2>2, <2>3
<1>3. c.edges = g.edges
  <2>1. ASSUME NEW x \in c.edges PROVE x \in g.edges
    <3>1. PICK l \in LinkRows(g, b) : x = <<l.from, l.to>>
      BY DEF Content
    <3>2. PICK d \in g.edges : l = [batch |-> b, from |-> d[1], to |-> d[2]]
      BY DEF LinkRows
    <3> QED
      BY <3>1, <3>2, ProperGraphs
  <2>2. ASSUME NEW x \in g.edges PROVE x \in c.edges
    <3>1. x \in g.keys \X g.keys
      BY ProperGraphs
    <3>2. [batch |-> b, from |-> x[1], to |-> x[2]] \in LinkRows(g, b)
      BY DEF LinkRows
    <3>3. PICK l \in LinkRows(g, b) : l = [batch |-> b, from |-> x[1], to |-> x[2]]
      BY <3>2
    <3>4. [key |-> l.from, batch |-> l.batch] \in NodeRows(g, b)
          /\ [key |-> l.to, batch |-> l.batch] \in NodeRows(g, b)
      BY <3>1, <3>3 DEF NodeRows
    <3> QED
      BY <3>1, <3>3, <3>4 DEF Content
  <2> QED
    BY <2>1, <2>2
<1> QED
  BY <1>1, <1>2, <1>3

LEMMA AuthoringInitHolds == AuthoringInit => AuthoringInv
<1> SUFFICES ASSUME AuthoringInit PROVE AuthoringInv
  OBVIOUS
<1>1. /\ nodes = {} /\ links = {} /\ version = 1 /\ history = <<>> /\ Len(history) = 0
      /\ overlapped = FALSE /\ snapshots = {} /\ reader.rows = {} /\ reader.pc = "idle"
      /\ reader.start = 0
  BY DEF AuthoringInit
<1>2. /\ FreshEdit \in Rewrite /\ FreshEdit.pc = "idle" /\ FreshEdit.seen = 0
      /\ FreshEdit.wiped = {} /\ FreshEdit.cut = {} /\ FreshEdit.of = {}
  BY ProperGraphs DEF FreshEdit, Rewrite, EditPc
<1>3. NoMutation \in Mutation /\ NoMutation.status = "none"
  BY ProperGraphs DEF NoMutation, Mutation
<1>4. edit = [e \in Edits |-> FreshEdit] /\ mutation = [c \in Chats |-> NoMutation]
  BY DEF AuthoringInit
<1>5. AuthoringTypes
  <2>1. /\ nodes \subseteq Row /\ overlapped \in BOOLEAN
        /\ version \in Nat \ {0} /\ version <= Len(history) + 1
    <3>1. 1 \in Nat \ {0} /\ 1 <= 0 + 1 /\ FALSE \in BOOLEAN
      OBVIOUS
    <3> QED
      BY <1>1, <3>1
  <2>5. reader \in [pc : {"idle", "nodes"}, rows : SUBSET Row, start : Nat]
        /\ reader.start <= Len(history)
    BY <1>1 DEF AuthoringInit
  <2>2. history \in Seq(Proper)
    BY <1>1
  <2>3. edit \in [Edits -> Rewrite] /\ \A e \in Edits : edit[e].seen <= Len(history) + 1
    BY <1>1, <1>2, <1>4
  <2>4. mutation \in [Chats -> Mutation]
    BY <1>3, <1>4
  <2> QED
    BY <2>1, <2>2, <2>3, <2>4, <2>5 DEF AuthoringTypes
<1>6. RowsAreDrafts
  BY <1>1, <1>2, <1>4 DEF RowsAreDrafts, WholeDrafts, KeysApart, LinksOf
<1>7. RewritesApart
  BY <1>1, <1>2, <1>3, <1>4 DEF RewritesApart, UnderWay, Edits,
       CommitIsNamed, MutationIsNamed
<1>8. UndosFit
  BY <1>2, <1>3, <1>4 DEF UndosFit, Edits
<1> QED
  BY <1>5, <1>6, <1>7, <1>8 DEF AuthoringInv

\* One request moves; the rows, the version and the mutations stay.
LEMMA RequestMoves ==
    ASSUME AuthoringInv, NEW e \in Edits, NEW new \in Rewrite,
           edit' = [edit EXCEPT ![e] = new],
           UNCHANGED <<nodes, links, version, history, mutation, reader, snapshots>>,
           edit[e].pc # "ended", new.pc # "committed", new.seen \in {0, edit[e].seen, version},
           WholeDrafts(new.wiped), new.cut = LinksOf(new.wiped),
           new.pc = "wiped" => new.wiped = nodes,
           \/ overlapped' = overlapped /\ new.pc \in {"idle", "ended", "failed"}
           \/ overlapped' = overlapped /\ UnderWay(e) /\ new.seen = edit[e].seen
           \/ overlapped' = Meets(e) /\ new.seen = version,
           e \notin Undos => new.of = {},
           e \in Undos => new.pc \notin {"reading", "asking"},
           e \in Undos /\ new.pc \in {"drafted", "wiped"} =>
               \A c \in new.of : /\ mutation[c].status # "none"
                                 /\ new.seen = mutation[c].version
                                 /\ new.draft = mutation[c].before
    PROVE  AuthoringInv'
<1>1. AuthoringTypes /\ RowsAreDrafts /\ RewritesApart /\ UndosFit
  BY DEF AuthoringInv
<1>2. /\ edit'[e] = new /\ edit' \in [Edits -> Rewrite]
      /\ \A f \in Edits \ {e} : edit'[f] = edit[f]
  BY <1>1 DEF AuthoringTypes
<1>3. overlapped' \in BOOLEAN
  BY <1>1 DEF AuthoringTypes, Meets
<1>4. AuthoringTypes'
  <2>1. new.seen <= Len(history) + 1
    BY <1>1 DEF AuthoringTypes
  <2> QED
    BY <1>1, <1>2, <1>3, <2>1 DEF AuthoringTypes
<1>5. RowsAreDrafts'
  BY <1>1, <1>2 DEF RowsAreDrafts, WholeDrafts, LinksOf, RowsOf, KeysApart
<1>6. UndosFit'
  <2>1. \A c \in Chats : c \in Edits /\ (mutation[c].status # "none" => c # e)
    BY <1>1 DEF UndosFit, Edits
  <2>2. \A u \in Undos : u \in Edits
    BY DEF Edits
  <2> QED
    BY <1>1, <1>2, <2>1, <2>2 DEF UndosFit
<1>7. RewritesApart'
  <2> SUFFICES ASSUME ~overlapped' PROVE RewritesApart'
    BY DEF RewritesApart
  <2>1. ~overlapped
    BY <1>1 DEF AuthoringTypes, Meets
  <2>2. UnderWay(e)' => /\ new.seen = version
                        /\ \A f \in Edits \ {e} : ~UnderWay(f)
    <3>1. CASE overlapped' = overlapped /\ new.pc \in {"idle", "ended", "failed"}
      BY <1>2, <3>1 DEF UnderWay
    <3>2. CASE overlapped' = overlapped /\ UnderWay(e) /\ new.seen = edit[e].seen
      BY <1>1, <2>1, <3>2 DEF RewritesApart
    <3>3. CASE overlapped' = Meets(e) /\ new.seen = version
      BY <3>3 DEF Meets
    <3> QED
      BY <3>1, <3>2, <3>3
  <2>3. \A f \in Edits \ {e} : UnderWay(f)' = UnderWay(f)
    BY <1>2 DEF UnderWay
  <2>4. /\ version' = Len(history)' + 1
        /\ \A f \in Edits : UnderWay(f)' => edit'[f].seen = version'
        /\ \A f \in Edits : edit'[f].pc = "wiped" => edit'[f].wiped = nodes'
    BY <1>1, <1>2, <2>1, <2>2, <2>3 DEF RewritesApart
  <2>5. \A f, g \in Edits : UnderWay(f)' /\ UnderWay(g)' => f = g
    BY <1>1, <2>1, <2>2, <2>3 DEF RewritesApart
  <2>6. nodes' # {} => \E b \in DOMAIN history' : nodes' = RowsOf(b)'
    BY <1>1, <2>1 DEF RewritesApart, RowsOf
  <2>7. ASSUME NEW c \in Chats PROVE CommitIsNamed(c)' /\ MutationIsNamed(c)'
    <3>1. CommitIsNamed(c) /\ MutationIsNamed(c) /\ c \in Edits
      BY <1>1, <2>1 DEF RewritesApart, Edits
    <3>2. edit'[c].pc = "committed" => edit'[c] = edit[c]
      BY <1>2, <3>1
    <3> QED
      BY <3>1, <3>2 DEF CommitIsNamed, MutationIsNamed, Named, RowsOf
  <2> QED
    BY <2>4, <2>5, <2>6, <2>7 DEF RewritesApart
<1> QED
  BY <1>4, <1>5, <1>6, <1>7 DEF AuthoringInv

LEMMA LoadForPutHolds ==
    ASSUME AuthoringInv, NEW e \in Edits, LoadForPut(e)
    PROVE  AuthoringInv'
<1>1. PICK g \in Drafts :
         edit' = [edit EXCEPT ![e].pc = "drafted", ![e].seen = version, ![e].draft = g]
  BY DEF LoadForPut
<1> DEFINE new == [edit[e] EXCEPT !.pc = "drafted", !.seen = version, !.draft = g]
<1>2. edit[e] \in Rewrite /\ edit[e].pc = "idle" /\ g \in Proper /\ version \in Nat
      /\ e \in Edits /\ WholeDrafts(edit[e].wiped) /\ edit[e].cut = LinksOf(edit[e].wiped)
      /\ (e \notin Undos => edit[e].of = {})
  BY ProperGraphs DEF LoadForPut, AuthoringInv, AuthoringTypes, RowsAreDrafts, UndosFit
<1>3. edit' = [edit EXCEPT ![e] = new]
  BY <1>1
<1>4. /\ new \in Rewrite /\ new.pc = "drafted" /\ new.seen = version
      /\ new.wiped = edit[e].wiped /\ new.cut = edit[e].cut /\ new.of = edit[e].of
  BY <1>2 DEF Rewrite, EditPc
<1> HIDE DEF new
<1> QED
  BY <1>2, <1>3, <1>4, RequestMoves, KindsAssumption DEF LoadForPut

LEMMA LoadForPatchHolds ==
    ASSUME AuthoringInv, NEW e \in Edits, LoadForPatch(e)
    PROVE  AuthoringInv'
<1> DEFINE new == [edit[e] EXCEPT !.pc = "named", !.seen = version]
<1>1. edit[e] \in Rewrite /\ edit[e].pc = "idle" /\ version \in Nat
      /\ WholeDrafts(edit[e].wiped) /\ edit[e].cut = LinksOf(edit[e].wiped)
      /\ (e \notin Undos => edit[e].of = {})
  BY DEF LoadForPatch, AuthoringInv, AuthoringTypes, RowsAreDrafts, UndosFit
<1>2. edit' = [edit EXCEPT ![e] = new]
  BY DEF LoadForPatch
<1>3. /\ new \in Rewrite /\ new.pc = "named" /\ new.seen = version
      /\ new.wiped = edit[e].wiped /\ new.cut = edit[e].cut /\ new.of = edit[e].of
  BY <1>1 DEF Rewrite, EditPc
<1> HIDE DEF new
<1> QED
  BY <1>1, <1>2, <1>3, RequestMoves DEF LoadForPatch

LEMMA LoadForChatHolds ==
    ASSUME AuthoringInv, NEW e \in Edits, LoadForChat(e)
    PROVE  AuthoringInv'
<1> DEFINE new == [edit[e] EXCEPT !.pc = "reading", !.seen = version, !.rows = nodes]
<1>1. edit[e] \in Rewrite /\ edit[e].pc = "idle" /\ version \in Nat /\ nodes \subseteq Row
      /\ WholeDrafts(edit[e].wiped) /\ edit[e].cut = LinksOf(edit[e].wiped)
      /\ (e \notin Undos => edit[e].of = {})
  BY DEF LoadForChat, AuthoringInv, AuthoringTypes, RowsAreDrafts, UndosFit
<1>2. edit' = [edit EXCEPT ![e] = new]
  BY DEF LoadForChat
<1>3. /\ new \in Rewrite /\ new.pc = "reading" /\ new.seen = version
      /\ new.wiped = edit[e].wiped /\ new.cut = edit[e].cut /\ new.of = edit[e].of
  BY <1>1 DEF Rewrite, EditPc
<1> HIDE DEF new
<1> QED
  BY <1>1, <1>2, <1>3, RequestMoves, KindsAssumption DEF LoadForChat

LEMMA LinksAreTyped ==
    ASSUME AuthoringInv, NEW S \in SUBSET Row, WholeDrafts(S)
    PROVE  LinksOf(S) \subseteq Link
<1> SUFFICES ASSUME NEW l \in LinksOf(S) PROVE l \in Link
  OBVIOUS
<1>1. PICK n \in S : l \in LinkRows(history[n.batch], n.batch)
  BY DEF LinksOf
<1>2. n.batch \in DOMAIN history /\ n.batch \in Nat
  BY <1>1 DEF WholeDrafts, Row
<1>3. history[n.batch] \in Proper
  BY <1>2 DEF AuthoringInv, AuthoringTypes
<1> QED
  BY <1>1, <1>2, <1>3 DEF Link

LEMMA ReadEdgesHolds ==
    ASSUME AuthoringInv, NEW e \in Edits, ReadEdges(e)
    PROVE  AuthoringInv'
<1>1. edit[e] \in Rewrite /\ edit[e].pc = "reading"
      /\ WholeDrafts(edit[e].wiped) /\ edit[e].cut = LinksOf(edit[e].wiped)
      /\ (e \notin Undos => edit[e].of = {})
  BY DEF ReadEdges, AuthoringInv, AuthoringTypes, RowsAreDrafts, UndosFit
<1>2. PICK g : g = Content(edit[e].rows, links)
  OBVIOUS
<1>3. g \in Proper
  <2>1. links \subseteq Link
    BY LinksAreTyped DEF AuthoringInv, RowsAreDrafts, AuthoringTypes
  <2>2. edit[e].rows \in SUBSET Row
    BY <1>1 DEF Rewrite
  <2> QED
    BY <1>2, <2>1, <2>2, ContentIsProper
<1> DEFINE new == [edit[e] EXCEPT !.pc = "asking", !.read = g]
<1>4. edit' = [edit EXCEPT ![e] = new]
  BY <1>2 DEF ReadEdges
<1>5. /\ new \in Rewrite /\ new.pc = "asking" /\ new.seen = edit[e].seen
      /\ new.wiped = edit[e].wiped /\ new.cut = edit[e].cut /\ new.of = edit[e].of
  BY <1>1, <1>3 DEF Rewrite, EditPc
<1> HIDE DEF new
<1>6. e \notin Undos
  BY <1>1 DEF AuthoringInv, UndosFit
<1>7. /\ UNCHANGED <<nodes, links, version, history, mutation, reader, snapshots, overlapped>>
      /\ UnderWay(e)
  BY <1>1 DEF ReadEdges, UnderWay
<1>8. WholeDrafts(new.wiped) /\ new.cut = LinksOf(new.wiped) /\ new.of = {}
  BY <1>1, <1>5, <1>6
<1> QED
  BY <1>1, <1>4, <1>5, <1>6, <1>7, <1>8, RequestMoves

LEMMA LoadForUndoHolds ==
    ASSUME AuthoringInv, NEW e \in Edits, NEW c \in Chats, LoadForUndo(e, c)
    PROVE  AuthoringInv'
<1>1. edit[e] \in Rewrite /\ edit[e].pc = "idle" /\ version \in Nat
      /\ WholeDrafts(edit[e].wiped) /\ edit[e].cut = LinksOf(edit[e].wiped)
      /\ (e \notin Undos => edit[e].of = {})
      /\ mutation[c] \in Mutation /\ mutation[c].status = "applied"
  BY DEF LoadForUndo, AuthoringInv, AuthoringTypes, RowsAreDrafts, UndosFit
<1>2. CASE version = mutation[c].version
  <2>1. PICK g \in Proper : g = mutation[c].before
    BY <1>1 DEF Mutation
  <2> DEFINE new == [edit[e] EXCEPT !.pc = "drafted", !.seen = version, !.draft = g, !.of = {c}]
  <2>2. edit' = [edit EXCEPT ![e] = new] /\ overlapped' = Meets(e)
    BY <1>2, <2>1 DEF LoadForUndo
  <2>3. /\ new \in Rewrite /\ new.pc = "drafted" /\ new.seen = version /\ new.draft = g
        /\ new.wiped = edit[e].wiped /\ new.cut = edit[e].cut /\ new.of = {c}
    BY <1>1 DEF Rewrite, EditPc
  <2> HIDE DEF new
  <2>4. \A d \in new.of : /\ mutation[d].status # "none" /\ new.seen = mutation[d].version
                          /\ new.draft = mutation[d].before
    BY <1>1, <1>2, <2>1, <2>3
  <2>5. e \in Undos /\ UNCHANGED <<nodes, links, version, history, mutation, reader, snapshots>>
    BY DEF LoadForUndo
  <2> QED
    BY <1>1, <2>2, <2>3, <2>4, <2>5, RequestMoves
<1>3. CASE version # mutation[c].version
  <2> DEFINE new == [edit[e] EXCEPT !.pc = "failed"]
  <2>1. edit' = [edit EXCEPT ![e] = new] /\ overlapped' = overlapped
    BY <1>3 DEF LoadForUndo, Becomes
  <2>2. /\ new \in Rewrite /\ new.pc = "failed" /\ new.seen = edit[e].seen
        /\ new.wiped = edit[e].wiped /\ new.cut = edit[e].cut /\ new.of = edit[e].of
    BY <1>1 DEF Rewrite, EditPc
  <2> HIDE DEF new
  <2> QED
    BY <1>1, <2>1, <2>2, RequestMoves DEF LoadForUndo
<1> QED
  BY <1>2, <1>3

LEMMA ModelAnswersHolds ==
    ASSUME AuthoringInv, NEW e \in Edits, ModelAnswers(e)
    PROVE  AuthoringInv'
<1>1. edit[e] \in Rewrite /\ edit[e].pc = "asking"
      /\ WholeDrafts(edit[e].wiped) /\ edit[e].cut = LinksOf(edit[e].wiped)
      /\ (e \notin Undos => edit[e].of = {})
  BY DEF ModelAnswers, AuthoringInv, AuthoringTypes, RowsAreDrafts, UndosFit
<1>2. CASE \E g \in Drafts : edit' = [edit EXCEPT ![e].pc = "drafted", ![e].draft = g]
  <2>1. PICK g \in Drafts : edit' = [edit EXCEPT ![e].pc = "drafted", ![e].draft = g]
    BY <1>2
  <2> DEFINE new == [edit[e] EXCEPT !.pc = "drafted", !.draft = g]
  <2>2. edit' = [edit EXCEPT ![e] = new]
    BY <2>1
  <2>3. /\ new \in Rewrite /\ new.pc = "drafted" /\ new.seen = edit[e].seen
        /\ new.wiped = edit[e].wiped /\ new.cut = edit[e].cut /\ new.of = edit[e].of
    BY <1>1, ProperGraphs DEF Rewrite, EditPc
  <2>4. e \notin Undos
    BY <1>1 DEF AuthoringInv, UndosFit
  <2> HIDE DEF new
  <2> QED
    BY <1>1, <2>2, <2>3, <2>4, RequestMoves DEF ModelAnswers, UnderWay
<1>3. CASE Becomes(e, "failed")
  <2> DEFINE new == [edit[e] EXCEPT !.pc = "failed"]
  <2>1. edit' = [edit EXCEPT ![e] = new]
    BY <1>3 DEF Becomes
  <2>2. /\ new \in Rewrite /\ new.pc = "failed" /\ new.seen = edit[e].seen
        /\ new.wiped = edit[e].wiped /\ new.cut = edit[e].cut /\ new.of = edit[e].of
    BY <1>1 DEF Rewrite, EditPc
  <2> HIDE DEF new
  <2> QED
    BY <1>1, <2>1, <2>2, RequestMoves DEF ModelAnswers
<1> QED
  BY <1>2, <1>3 DEF ModelAnswers

LEMMA WipeHolds ==
    ASSUME AuthoringInv, NEW e \in Edits, Wipe(e)
    PROVE  AuthoringInv'
<1>1. /\ edit[e] \in Rewrite /\ edit[e].pc = "drafted" /\ nodes \subseteq Row
      /\ WholeDrafts(nodes) /\ links = LinksOf(nodes) /\ links \subseteq Link
      /\ (e \notin Undos => edit[e].of = {})
  BY LinksAreTyped DEF Wipe, AuthoringInv, AuthoringTypes, RowsAreDrafts, UndosFit
<1> DEFINE new == [edit[e] EXCEPT !.pc = "wiped", !.wiped = nodes, !.cut = links]
<1>2. edit' = [edit EXCEPT ![e] = new]
  BY DEF Wipe
<1>3. /\ new \in Rewrite /\ new.pc = "wiped" /\ new.seen = edit[e].seen
      /\ new.wiped = nodes /\ new.cut = links /\ new.draft = edit[e].draft
      /\ new.of = edit[e].of
  BY <1>1 DEF Rewrite, EditPc
<1> HIDE DEF new
<1>4. e \in Undos => \A c \in new.of : /\ mutation[c].status # "none"
                                       /\ new.seen = mutation[c].version
                                       /\ new.draft = mutation[c].before
  BY <1>1, <1>3 DEF AuthoringInv, UndosFit
<1> QED
  BY <1>1, <1>2, <1>3, <1>4, RequestMoves DEF Wipe, UnderWay

LEMMA EditDiesHolds ==
    ASSUME AuthoringInv, NEW e \in Edits, EditDies(e)
    PROVE  AuthoringInv'
<1>1. /\ edit[e] \in Rewrite /\ edit[e].pc \notin {"idle", "ended", "failed"}
      /\ WholeDrafts(edit[e].wiped) /\ edit[e].cut = LinksOf(edit[e].wiped)
      /\ (e \notin Undos => edit[e].of = {})
  BY DEF EditDies, AuthoringInv, AuthoringTypes, RowsAreDrafts, UndosFit
<1>2. CASE edit' = [edit EXCEPT ![e] = FreshEdit]
  <2>1. /\ FreshEdit \in Rewrite /\ FreshEdit.pc = "idle" /\ FreshEdit.seen = 0
        /\ FreshEdit.wiped = {} /\ FreshEdit.cut = {} /\ FreshEdit.of = {}
    BY ProperGraphs DEF FreshEdit, Rewrite, EditPc
  <2>2. WholeDrafts(FreshEdit.wiped) /\ FreshEdit.cut = LinksOf(FreshEdit.wiped)
    BY <2>1 DEF WholeDrafts, LinksOf
  <2> QED
    BY <1>1, <1>2, <2>1, <2>2, RequestMoves DEF EditDies
<1>3. CASE Becomes(e, "failed")
  <2> DEFINE new == [edit[e] EXCEPT !.pc = "failed"]
  <2>1. edit' = [edit EXCEPT ![e] = new]
    BY <1>3 DEF Becomes
  <2>2. /\ new \in Rewrite /\ new.pc = "failed" /\ new.seen = edit[e].seen
        /\ new.wiped = edit[e].wiped /\ new.cut = edit[e].cut /\ new.of = edit[e].of
    BY <1>1 DEF Rewrite, EditPc
  <2> HIDE DEF new
  <2> QED
    BY <1>1, <2>1, <2>2, RequestMoves DEF EditDies
<1> QED
  BY <1>2, <1>3 DEF EditDies

LEMMA HistoryGrows ==
    ASSUME AuthoringInv, NEW g \in Proper, history' = Append(history, g)
    PROVE  /\ history' \in Seq(Proper) /\ Len(history)' = Len(history) + 1 /\ Len(history) \in Nat
           /\ DOMAIN history = 1..Len(history) /\ DOMAIN history' = 1..(Len(history) + 1)
           /\ history'[Len(history) + 1] = g
           /\ \A b \in DOMAIN history : history'[b] = history[b] /\ RowsOf(b)' = RowsOf(b)
BY DEF AuthoringInv, AuthoringTypes, RowsOf

LEMMA DraftsStand ==
    ASSUME AuthoringInv, NEW g \in Proper, history' = Append(history, g), NEW S, WholeDrafts(S)
    PROVE  WholeDrafts(S)' /\ LinksOf(S)' = LinksOf(S)
<1>1. \A n \in S : /\ n.batch \in DOMAIN history /\ n.batch \in DOMAIN history'
                   /\ history'[n.batch] = history[n.batch]
  BY HistoryGrows DEF WholeDrafts
<1> QED
  BY <1>1 DEF WholeDrafts, LinksOf, RowsOf

\* A rewrite or a PATCH is committed: the rows of the others stand.
LEMMA OthersStand ==
    ASSUME AuthoringInv, NEW g \in Proper, history' = Append(history, g),
           NEW e \in Edits, NEW new \in Rewrite, edit' = [edit EXCEPT ![e] = new],
           new.wiped = edit[e].wiped, new.cut = edit[e].cut,
           UNCHANGED <<reader, snapshots>>,
           WholeDrafts(nodes)', KeysApart(nodes)', links' = LinksOf(nodes)'
    PROVE  RowsAreDrafts'
<1>1. AuthoringTypes /\ RowsAreDrafts
  BY DEF AuthoringInv
<1>2. \A f \in Edits : edit'[f].wiped = edit[f].wiped /\ edit'[f].cut = edit[f].cut
  BY <1>1 DEF AuthoringTypes
<1>3. \A S : WholeDrafts(S) => WholeDrafts(S)' /\ LinksOf(S)' = LinksOf(S)
  BY DraftsStand
<1>4. ASSUME NEW f \in Edits
      PROVE  WholeDrafts(edit[f].wiped)' /\ edit'[f].cut = LinksOf(edit[f].wiped)'
  <2>1. PICK S : S = edit[f].wiped
    OBVIOUS
  <2>2. WholeDrafts(S) /\ edit[f].cut = LinksOf(S)
    BY <1>1, <2>1 DEF RowsAreDrafts
  <2>3. WholeDrafts(S)' /\ LinksOf(S)' = LinksOf(S)
    BY <1>3, <2>2
  <2>4. edit'[f].wiped = S /\ edit'[f].cut = edit[f].cut
    BY <1>2, <2>1
  <2> QED
    BY <2>2, <2>3, <2>4 DEF WholeDrafts, LinksOf
<1>5. WholeDrafts(reader.rows)' /\ KeysApart(reader.rows)'
  <2>1. PICK S : S = reader.rows
    OBVIOUS
  <2>2. WholeDrafts(S)'
    BY <1>1, <1>3, <2>1 DEF RowsAreDrafts
  <2>3. reader'.rows = S
    BY <2>1
  <2> QED
    BY <1>1, <2>2, <2>3 DEF WholeDrafts, KeysApart, RowsAreDrafts
<1>6. \A s \in snapshots' : WholeDrafts(s.rows)'
  BY <1>1, <1>3 DEF RowsAreDrafts
<1>7. reader'.start # Len(history)'
  <2>1. Len(history)' = Len(history) + 1 /\ Len(history) \in Nat
    BY HistoryGrows
  <2> QED
    BY <1>1, <2>1 DEF AuthoringTypes
<1> QED
  BY <1>4, <1>5, <1>6, <1>7 DEF RowsAreDrafts

LEMMA NamesStand ==
    ASSUME AuthoringInv, NEW g \in Proper, history' = Append(history, g),
           NEW b, NEW h, Named(b, h)
    PROVE  Named(b, h)'
<1>1. /\ Len(history)' = Len(history) + 1 /\ Len(history) \in Nat
      /\ b \in 1..Len(history) /\ b \in DOMAIN history' /\ history'[b] = history[b]
  BY HistoryGrows DEF Named
<1> QED
  BY <1>1 DEF Named

\* The commit of the only rewrite under way names its graph.
LEMMA CommitApart ==
    ASSUME AuthoringInv, NEW g \in Proper, history' = Append(history, g),
           NEW e \in Edits, NEW new \in Rewrite, edit' = [edit EXCEPT ![e] = new],
           UnderWay(e), version' = edit[e].seen + 1, new.seen = edit[e].seen,
           new.pc \in {"ended", "committed"}, UNCHANGED <<mutation, overlapped>>,
           ~overlapped,
           nodes' = nodes \/ nodes' = NodeRows(g, Len(history) + 1),
           e \in Chats /\ new.pc = "committed" =>
              new.draft = g /\ nodes' = NodeRows(g, Len(history) + 1)
    PROVE  RewritesApart'
<1>1. AuthoringTypes /\ RewritesApart /\ ~overlapped
  BY DEF AuthoringInv
<1>2. /\ edit'[e] = new /\ ~UnderWay(e)'
      /\ \A f \in Edits \ {e} : edit'[f] = edit[f] /\ ~UnderWay(f) /\ ~UnderWay(f)'
  BY <1>1 DEF AuthoringTypes, RewritesApart, UnderWay
<1>3. /\ Len(history)' = Len(history) + 1 /\ Len(history) \in Nat
      /\ DOMAIN history = 1..Len(history) /\ DOMAIN history' = 1..(Len(history) + 1)
      /\ history'[Len(history) + 1] = g
      /\ \A b \in DOMAIN history : RowsOf(b)' = RowsOf(b)
  BY HistoryGrows
<1>4. version = Len(history) + 1 /\ edit[e].seen = version
  BY <1>1 DEF RewritesApart
<1>5. version' = Len(history)' + 1
  BY <1>3, <1>4
<1>6. \A f \in Edits : ~UnderWay(f)' /\ edit'[f].pc # "wiped"
  BY <1>2 DEF UnderWay
<1>7. nodes' # {} => \E b \in DOMAIN history' : nodes' = RowsOf(b)'
  <2>1. CASE nodes' = NodeRows(g, Len(history) + 1)
    <3>1. PICK b : b = Len(history) + 1
      OBVIOUS
    <3>2. b \in DOMAIN history' /\ history'[b] = g
      BY <1>3, <3>1
    <3>3. nodes' = RowsOf(b)'
      BY <2>1, <3>1, <3>2 DEF RowsOf
    <3> QED
      BY <3>2, <3>3
  <2>2. CASE nodes' = nodes
    <3> SUFFICES ASSUME nodes # {} PROVE \E b \in DOMAIN history' : nodes' = RowsOf(b)'
      BY <2>2
    <3>1. PICK b \in DOMAIN history : nodes = RowsOf(b)
      BY <1>1 DEF RewritesApart
    <3>2. b \in DOMAIN history' /\ nodes' = RowsOf(b)'
      BY <1>3, <2>2, <3>1
    <3> QED
      BY <3>2
  <2> QED
    BY <2>1, <2>2
<1>8. ASSUME NEW c \in Chats PROVE CommitIsNamed(c)' /\ MutationIsNamed(c)'
  <2>1. CommitIsNamed(c) /\ MutationIsNamed(c) /\ c \in Edits
    BY <1>1 DEF RewritesApart, Edits
  <2>2. MutationIsNamed(c)'
    <3>1. PICK b, h : b = mutation[c].version - 1 /\ h = mutation[c].after
      OBVIOUS
    <3>2. Named(b, h) => Named(b, h)'
      BY NamesStand
    <3> QED
      BY <2>1, <3>1, <3>2 DEF MutationIsNamed, Named, RowsOf
  <2>3. CASE c # e
    <3>1. PICK b, h : b = edit[c].seen /\ h = edit[c].draft
      OBVIOUS
    <3>2. Named(b, h) => Named(b, h)'
      BY NamesStand
    <3>3. edit'[c] = edit[c]
      BY <1>2, <2>1, <2>3
    <3> QED
      BY <2>1, <2>2, <3>1, <3>2, <3>3 DEF CommitIsNamed, Named, RowsOf
  <2>4. CASE c = e
    <3> SUFFICES ASSUME new.pc = "committed" PROVE CommitIsNamed(c)'
      BY <1>2, <2>2, <2>4 DEF CommitIsNamed
    <3>1. edit'[c].seen = Len(history) + 1 /\ edit'[c].draft = g
      BY <1>2, <1>4, <2>4
    <3>2. nodes' = NodeRows(g, Len(history) + 1)
      BY <2>4
    <3>3. PICK b : b = Len(history) + 1
      OBVIOUS
    <3>4. b \in DOMAIN history' /\ history'[b] = g
      BY <1>3, <3>3
    <3>5. nodes' = RowsOf(b)'
      BY <3>2, <3>3, <3>4 DEF RowsOf
    <3> QED
      BY <3>1, <3>3, <3>4, <3>5 DEF CommitIsNamed, Named, RowsOf
  <2> QED
    BY <2>2, <2>3, <2>4
<1> QED
  BY <1>5, <1>6, <1>7, <1>8 DEF RewritesApart

\* The rows a commit leaves of the others are whole drafts with their links.
LEMMA LeftIsWhole ==
    ASSUME AuthoringInv, NEW wiped, WholeDrafts(wiped)
    PROVE  LET left == nodes \ wiped
           IN  /\ WholeDrafts(left) /\ KeysApart(left)
               /\ {l \in links \ LinksOf(wiped) : \E n \in left : n.batch = l.batch} = LinksOf(left)
<1> DEFINE left == nodes \ wiped
           kept == {l \in links \ LinksOf(wiped) : \E n \in left : n.batch = l.batch}
<1>1. WholeDrafts(nodes) /\ KeysApart(nodes) /\ links = LinksOf(nodes)
  BY DEF AuthoringInv, RowsAreDrafts
<1>2. ASSUME NEW n \in left, NEW m \in wiped PROVE n.batch # m.batch
  BY <1>1 DEF WholeDrafts
<1>3. \A b : \A m \in RowsOf(b) : m.batch = b
  BY DEF RowsOf, NodeRows
<1>4. WholeDrafts(left)
  <2> SUFFICES ASSUME NEW n \in left PROVE RowsOf(n.batch) \subseteq left
    BY <1>1 DEF WholeDrafts
  <2> QED
    BY <1>1, <1>2, <1>3 DEF WholeDrafts
<1>5. KeysApart(left)
  BY <1>1 DEF KeysApart
<1>6. \A g, b : \A l \in LinkRows(g, b) : l.batch = b
  BY DEF LinkRows
<1>7. ASSUME NEW l \in kept PROVE l \in LinksOf(left)
  <2>1. PICK n \in left : n.batch = l.batch
    OBVIOUS
  <2>2. PICK m \in nodes : l \in LinkRows(history[m.batch], m.batch)
    BY <1>1 DEF LinksOf
  <2>3. l.batch = m.batch
    BY <1>6, <2>2
  <2>4. l \in LinkRows(history[n.batch], n.batch)
    BY <2>1, <2>2, <2>3
  <2> QED
    BY <2>4 DEF LinksOf
<1>8. ASSUME NEW l \in LinksOf(left) PROVE l \in kept
  <2>1. PICK n \in left : l \in LinkRows(history[n.batch], n.batch)
    BY DEF LinksOf
  <2>2. l.batch = n.batch
    BY <1>6, <2>1
  <2>3. l \in links
    BY <1>1, <2>1 DEF LinksOf
  <2>4. ASSUME l \in LinksOf(wiped) PROVE FALSE
    <3>1. PICK m \in wiped : l \in LinkRows(history[m.batch], m.batch)
      BY <2>4 DEF LinksOf
    <3> QED
      BY <1>2, <1>6, <2>2, <3>1
  <2> QED
    BY <2>2, <2>3, <2>4
<1> QED
  BY <1>4, <1>5, <1>7, <1>8

\* A commit adds one whole draft with its links to rows that are whole.
LEMMA GrownIsWhole ==
    ASSUME AuthoringInv, NEW g \in Proper, history' = Append(history, g),
           NEW left, WholeDrafts(left), KeysApart(left), \A n \in left : n.key \notin g.keys,
           NEW b, b = Len(history) + 1,
           nodes' = left \cup NodeRows(g, b), links' = LinksOf(left) \cup LinkRows(g, b)
    PROVE  WholeDrafts(nodes)' /\ KeysApart(nodes)' /\ links' = LinksOf(nodes)'
<1>1. b \in DOMAIN history' /\ history'[b] = g
  BY HistoryGrows
<1>2. \A n \in left : /\ n.batch \in DOMAIN history' /\ history'[n.batch] = history[n.batch]
                      /\ n \in RowsOf(n.batch) /\ RowsOf(n.batch) \subseteq left
  BY HistoryGrows DEF WholeDrafts
<1>3. \A n \in NodeRows(g, b) : n.batch = b /\ n.key \in g.keys
  BY DEF NodeRows
<1>4. WholeDrafts(nodes)'
  BY <1>1, <1>2, <1>3 DEF WholeDrafts, RowsOf
<1>5. KeysApart(nodes)'
  <2>1. \A n, o \in NodeRows(g, b) : n.key = o.key => n = o
    BY DEF NodeRows
  <2> QED
    BY <1>3, <2>1 DEF KeysApart
<1>6. ASSUME NEW l \in links' PROVE l \in LinksOf(nodes)'
  <2>1. CASE l \in LinksOf(left)
    BY <1>2, <2>1 DEF LinksOf
  <2>2. CASE l \in LinkRows(g, b)
    <3>1. PICK x \in g.edges : l = [batch |-> b, from |-> x[1], to |-> x[2]]
      BY <2>2 DEF LinkRows
    <3>2. x \in g.keys \X g.keys
      BY ProperGraphs
    <3>3. x[1] \in g.keys
      BY <3>2
    <3>4. [key |-> x[1], batch |-> b] \in NodeRows(g, b)
      BY <3>3 DEF NodeRows
    <3>5. PICK n \in nodes' : n.batch = b
      BY <3>4
    <3>6. l \in LinkRows(history'[n.batch], n.batch)
      BY <1>1, <2>2, <3>5
    <3> QED
      BY <3>6 DEF LinksOf
  <2> QED
    BY <2>1, <2>2
<1>7. ASSUME NEW l \in LinksOf(nodes)' PROVE l \in links'
  <2>1. PICK n \in nodes' : l \in LinkRows(history'[n.batch], n.batch)
    BY DEF LinksOf
  <2>2. CASE n \in left
    BY <1>2, <2>1, <2>2 DEF LinksOf
  <2>3. CASE n \in NodeRows(g, b)
    BY <1>1, <1>3, <2>1, <2>3
  <2> QED
    BY <2>2, <2>3
<1> QED
  BY <1>4, <1>5, <1>6, <1>7

\* What commits do to the rest of the state.
LEMMA CommitTypes ==
    ASSUME AuthoringInv, NEW g \in Proper, history' = Append(history, g),
           NEW e \in Edits, NEW new \in Rewrite, edit' = [edit EXCEPT ![e] = new],
           new.seen = edit[e].seen, version' = edit[e].seen + 1,
           UNCHANGED <<mutation, reader, overlapped>>,
           nodes' \subseteq Row
    PROVE  AuthoringTypes'
<1>1. AuthoringTypes
  BY DEF AuthoringInv
<1>2. history' \in Seq(Proper) /\ Len(history)' = Len(history) + 1 /\ Len(history) \in Nat
  BY HistoryGrows
<1>3. edit[e].seen \in Nat /\ edit[e].seen <= Len(history) + 1
  BY <1>1 DEF AuthoringTypes, Rewrite
<1>4. version' \in Nat \ {0} /\ version' <= Len(history)' + 1
  BY <1>2, <1>3
<1>5. edit' \in [Edits -> Rewrite] /\ \A f \in Edits : edit'[f].seen = edit[f].seen
  BY <1>1 DEF AuthoringTypes
<1>6. \A f \in Edits : edit'[f].seen <= Len(history)' + 1
  <2> SUFFICES ASSUME NEW f \in Edits PROVE edit'[f].seen <= Len(history)' + 1
    OBVIOUS
  <2>1. edit[f].seen \in Nat /\ edit[f].seen <= Len(history) + 1
    BY <1>1 DEF AuthoringTypes, Rewrite
  <2> QED
    BY <1>2, <1>5, <2>1
<1>7. /\ reader' \in [pc : {"idle", "nodes"}, rows : SUBSET Row, start : Nat]
      /\ reader'.start <= Len(history)'
  BY <1>1, <1>2 DEF AuthoringTypes
<1> QED
  BY <1>1, <1>2, <1>4, <1>5, <1>6, <1>7 DEF AuthoringTypes

\* The undos under way stay as they are when another rewrite commits.
LEMMA CommitUndos ==
    ASSUME AuthoringInv, NEW e \in Edits, NEW new \in Rewrite, edit' = [edit EXCEPT ![e] = new],
           edit[e].pc # "ended", new.pc \in {"ended", "committed"}, UNCHANGED mutation,
           new.of = edit[e].of, new.seen = edit[e].seen,
           new.pc = "committed" => edit[e].pc = "wiped" /\ new.draft = edit[e].draft
    PROVE  UndosFit'
<1>1. UndosFit /\ edit \in [Edits -> Rewrite]
  BY DEF AuthoringInv, AuthoringTypes
<1>2. edit'[e] = new /\ \A f \in Edits \ {e} : edit'[f] = edit[f]
  BY <1>1
<1>3. Chats \subseteq Edits /\ Undos \subseteq Edits
  BY DEF Edits
<1> QED
  BY <1>1, <1>2, <1>3 DEF UndosFit

LEMMA InsertHolds ==
    ASSUME AuthoringInv, NEW e \in Edits, Insert(e)
    PROVE  AuthoringInv'
<1>1. /\ edit[e] \in Rewrite /\ edit[e].pc = "wiped" /\ nodes \subseteq Row
      /\ WholeDrafts(edit[e].wiped) /\ edit[e].cut = LinksOf(edit[e].wiped)
      /\ (e \notin Undos => edit[e].of = {})
  BY DEF Insert, AuthoringInv, AuthoringTypes, RowsAreDrafts, UndosFit
<1>2. PICK g \in Proper, left \in SUBSET Row :
         g = edit[e].draft /\ left = nodes \ edit[e].wiped
  BY <1>1 DEF Rewrite
<1>3. PICK b : b = Len(history) + 1
  OBVIOUS
<1>4. CASE \E n \in left : n.key \in g.keys
  <2> DEFINE new == [edit[e] EXCEPT !.pc = "failed"]
  <2>1. edit' = [edit EXCEPT ![e] = new]
        /\ UNCHANGED <<nodes, links, version, history, mutation, reader, snapshots, overlapped>>
    BY <1>2, <1>4 DEF Insert, Becomes
  <2>2. /\ new \in Rewrite /\ new.pc = "failed" /\ new.seen = edit[e].seen
        /\ new.wiped = edit[e].wiped /\ new.cut = edit[e].cut /\ new.of = edit[e].of
    BY <1>1 DEF Rewrite, EditPc
  <2> HIDE DEF new
  <2> QED
    BY <1>1, <2>1, <2>2, RequestMoves
<1>5. CASE \A n \in left : n.key \notin g.keys
  <2> DEFINE new == [edit[e] EXCEPT !.pc = IF e \in Puts THEN "ended" ELSE "committed"]
  <2>1. /\ edit' = [edit EXCEPT ![e] = new]
        /\ UNCHANGED <<mutation, reader, snapshots, overlapped>>
        /\ nodes' = left \cup NodeRows(g, b)
        /\ links' = {l \in links \ edit[e].cut : \E n \in left : n.batch = l.batch}
                      \cup LinkRows(g, b)
        /\ version' = edit[e].seen + 1
        /\ history' = Append(history, g)
    BY <1>2, <1>3, <1>5 DEF Insert, Becomes
  <2>2. /\ new \in Rewrite /\ new.pc \in {"ended", "committed"} /\ new.seen = edit[e].seen
        /\ new.draft = g /\ new.wiped = edit[e].wiped /\ new.cut = edit[e].cut
        /\ new.of = edit[e].of
        /\ new.of = edit[e].of
    BY <1>1, <1>2 DEF Rewrite, EditPc
  <2> HIDE DEF new
  <2>3. /\ WholeDrafts(left) /\ KeysApart(left)
        /\ {l \in links \ edit[e].cut : \E n \in left : n.batch = l.batch} = LinksOf(left)
    <3>1. PICK w : w = edit[e].wiped
      OBVIOUS
    <3> QED
      BY <1>1, <1>2, <3>1, LeftIsWhole
  <2>4. links' = LinksOf(left) \cup LinkRows(g, b)
    BY <2>1, <2>3
  <2>5. WholeDrafts(nodes)' /\ KeysApart(nodes)' /\ links' = LinksOf(nodes)'
    BY <1>3, <1>5, <2>1, <2>3, <2>4, GrownIsWhole
  <2>6. RowsAreDrafts'
    BY <2>1, <2>2, <2>5, OthersStand
  <2>7. AuthoringTypes'
    <3>1. g.keys \subseteq UNION {d.keys : d \in Drafts}
      BY DEF Proper, Graph
    <3>2. b \in Nat
      BY <1>3, HistoryGrows, <2>1
    <3>3. NodeRows(g, b) \subseteq Row
      BY <3>1, <3>2 DEF NodeRows, Row
    <3>4. nodes' \subseteq Row
      BY <1>1, <1>2, <2>1, <3>3
    <3> QED
      BY <2>1, <2>2, <3>4, CommitTypes
  <2>8. UndosFit'
    BY <1>1, <1>2, <2>1, <2>2, CommitUndos
  <2>9. RewritesApart'
    <3> SUFFICES ASSUME ~overlapped PROVE RewritesApart'
      BY <2>1 DEF RewritesApart
    <3>1. left = {}
      BY <1>1, <1>2 DEF AuthoringInv, RewritesApart
    <3>2. nodes' = NodeRows(g, Len(history) + 1)
      BY <1>3, <2>1, <3>1
    <3>3. UnderWay(e)
      BY <1>1 DEF UnderWay
    <3> QED
      BY <2>1, <2>2, <3>2, <3>3, CommitApart
  <2> QED
    BY <2>6, <2>7, <2>8, <2>9 DEF AuthoringInv
<1> QED
  BY <1>4, <1>5

LEMMA PatchHolds ==
    ASSUME AuthoringInv, NEW e \in Edits, Patch(e)
    PROVE  AuthoringInv'
<1>1. /\ edit[e] \in Rewrite /\ edit[e].pc = "named" /\ nodes \subseteq Row
      /\ WholeDrafts(nodes) /\ KeysApart(nodes) /\ links = LinksOf(nodes)
  BY DEF Patch, AuthoringInv, AuthoringTypes, RowsAreDrafts
<1> DEFINE new == [edit[e] EXCEPT !.pc = "ended"]
<1>2. /\ edit' = [edit EXCEPT ![e] = new] /\ version' = edit[e].seen + 1
      /\ history' = Append(history, NoGraph)
      /\ UNCHANGED <<nodes, links, mutation, reader, snapshots, overlapped>>
  BY DEF Patch, Becomes
<1>3. /\ new \in Rewrite /\ new.pc = "ended" /\ new.seen = edit[e].seen
      /\ new.wiped = edit[e].wiped /\ new.cut = edit[e].cut /\ new.of = edit[e].of
  BY <1>1 DEF Rewrite, EditPc
<1> HIDE DEF new
<1>4. PICK g \in Proper : g = NoGraph
  BY ProperGraphs
<1>5. history' = Append(history, g)
  BY <1>2, <1>4
<1>6. WholeDrafts(nodes)' /\ KeysApart(nodes)' /\ links' = LinksOf(nodes)'
  <2>1. PICK S : S = nodes
    OBVIOUS
  <2>2. WholeDrafts(S)' /\ LinksOf(S)' = LinksOf(S)
    BY <1>1, <1>5, <2>1, DraftsStand
  <2>3. nodes' = S /\ links' = LinksOf(S)
    BY <1>1, <1>2, <2>1
  <2> QED
    BY <1>1, <1>2, <2>2, <2>3 DEF WholeDrafts, LinksOf, KeysApart
<1>7. RowsAreDrafts'
  BY <1>2, <1>3, <1>5, <1>6, OthersStand
<1>8. AuthoringTypes'
  BY <1>1, <1>2, <1>3, <1>5, CommitTypes
<1>9. UndosFit'
  BY <1>1, <1>2, <1>3, CommitUndos
<1>10. RewritesApart'
  <2> SUFFICES ASSUME ~overlapped PROVE RewritesApart'
    BY <1>2 DEF RewritesApart
  <2>1. UnderWay(e)
    BY <1>1 DEF UnderWay
  <2> QED
    BY <1>2, <1>3, <1>5, <2>1, CommitApart
<1> QED
  BY <1>7, <1>8, <1>9, <1>10 DEF AuthoringInv

\* The second commit of a chat edit or of an undo.
LEMMA RecordHolds ==
    ASSUME AuthoringInv, NEW e \in Edits, Record(e)
    PROVE  AuthoringInv'
<1> DEFINE new == [edit[e] EXCEPT !.pc = "ended"]
<1>1. /\ AuthoringTypes /\ RowsAreDrafts /\ RewritesApart /\ UndosFit
      /\ edit[e] \in Rewrite /\ edit[e].pc = "committed"
  BY DEF Record, AuthoringInv, AuthoringTypes
<1>2. /\ edit' = [edit EXCEPT ![e] = new]
      /\ UNCHANGED <<nodes, links, version, history, reader, snapshots, overlapped>>
  BY DEF Record, Becomes
<1>3. /\ new \in Rewrite /\ new.pc = "ended" /\ new.seen = edit[e].seen
      /\ new.wiped = edit[e].wiped /\ new.cut = edit[e].cut /\ new.of = edit[e].of
  BY <1>1 DEF Rewrite, EditPc
<1> HIDE DEF new
<1>4. edit'[e] = new /\ edit' \in [Edits -> Rewrite] /\ \A f \in Edits \ {e} : edit'[f] = edit[f]
  BY <1>1, <1>2, <1>3 DEF AuthoringTypes
<1>5. Chats \subseteq Edits /\ Undos \subseteq Edits
  BY DEF Edits
\* What each mutation has become.
<1>6. /\ mutation' \in [Chats -> Mutation]
      /\ \A c \in Chats \ {e} : /\ mutation'[c].status # "none" <=> mutation[c].status # "none"
                                /\ mutation'[c].version = mutation[c].version
                                /\ mutation'[c].before = mutation[c].before
                                /\ mutation'[c].after = mutation[c].after
      /\ e \in Chats => mutation'[e].version = edit[e].seen + 1 /\ mutation'[e].after = edit[e].draft
  <2>1. CASE e \in Chats
    <3> DEFINE m == [status |-> "applied", before |-> edit[e].read,
                     after |-> edit[e].draft, version |-> edit[e].seen + 1]
    <3>1. m \in Mutation /\ m.version = edit[e].seen + 1 /\ m.after = edit[e].draft
      BY <1>1 DEF Rewrite, Mutation
    <3>2. mutation' = [mutation EXCEPT ![e] = m]
      BY <2>1 DEF Record
    <3> HIDE DEF m
    <3> QED
      BY <1>1, <2>1, <3>1, <3>2 DEF AuthoringTypes
  <2>2. CASE e \notin Chats
    <3>1. mutation' = [c \in Chats |-> IF c \in edit[e].of
                                       THEN [mutation[c] EXCEPT !.status = "undone"]
                                       ELSE mutation[c]]
      BY <2>2 DEF Record
    <3>2. ASSUME NEW c \in Chats
          PROVE  /\ mutation'[c] \in Mutation
                 /\ mutation'[c].status # "none" <=> mutation[c].status # "none"
                 /\ mutation'[c].version = mutation[c].version
                 /\ mutation'[c].before = mutation[c].before
                 /\ mutation'[c].after = mutation[c].after
      <4>1. mutation[c] \in Mutation
        BY <1>1 DEF AuthoringTypes
      <4>2. CASE c \in edit[e].of
        <5>1. mutation'[c] = [mutation[c] EXCEPT !.status = "undone"]
          BY <3>1, <4>2
        <5>2. mutation[c].status # "none"
          BY <1>1, <2>2, <4>2 DEF UndosFit
        <5> QED
          BY <4>1, <5>1, <5>2 DEF Mutation
      <4>3. CASE c \notin edit[e].of
        BY <3>1, <4>1, <4>3
      <4> QED
        BY <4>2, <4>3
    <3>3. mutation' \in [Chats -> Mutation]
      BY <3>1, <3>2
    <3> QED
      BY <2>2, <3>2, <3>3
  <2> QED
    BY <2>1, <2>2
<1>7. AuthoringTypes'
  BY <1>1, <1>2, <1>3, <1>4, <1>6 DEF AuthoringTypes
<1>8. RowsAreDrafts'
  BY <1>1, <1>2, <1>3, <1>4 DEF RowsAreDrafts, WholeDrafts, LinksOf, RowsOf, KeysApart
<1>9. UndosFit'
  <2>1. \A c \in Chats : mutation'[c].status # "none" => edit'[c].pc = "ended"
    BY <1>1, <1>3, <1>4, <1>5, <1>6 DEF UndosFit
  <2>2. \A f \in Edits \ Undos : edit'[f].of = {}
    BY <1>1, <1>3, <1>4 DEF UndosFit
  <2>3. \A u \in Undos : edit'[u].pc \notin {"reading", "asking"}
    BY <1>1, <1>3, <1>4, <1>5 DEF UndosFit
  <2>4. ASSUME NEW u \in Undos, edit'[u].pc \in {"drafted", "wiped", "committed"},
               NEW c \in edit'[u].of
        PROVE  /\ mutation'[c].status # "none" /\ edit'[u].seen = mutation'[c].version
               /\ edit'[u].draft = mutation'[c].before
    <3>1. u # e /\ edit'[u] = edit[u]
      BY <1>3, <1>4, <1>5, <2>4
    <3>2. /\ mutation[c].status # "none" /\ edit[u].seen = mutation[c].version
          /\ edit[u].draft = mutation[c].before
      BY <1>1, <2>4, <3>1 DEF UndosFit
    <3>3. c \in Chats
      BY <1>1, <1>5, <2>4, <3>1 DEF AuthoringTypes, Rewrite
    <3>4. c # e
      BY <1>1, <3>2, <3>3 DEF UndosFit
    <3> QED
      BY <1>6, <3>1, <3>2, <3>3, <3>4
  <2> QED
    BY <2>1, <2>2, <2>3, <2>4 DEF UndosFit
<1>10. RewritesApart'
  <2> SUFFICES ASSUME ~overlapped PROVE RewritesApart'
    BY <1>2 DEF RewritesApart
  <2>1. \A f \in Edits : UnderWay(f)' = UnderWay(f)
    BY <1>1, <1>3, <1>4 DEF UnderWay
  <2>2. /\ version' = Len(history)' + 1
        /\ \A f, g \in Edits : UnderWay(f)' /\ UnderWay(g)' => f = g
        /\ nodes' # {} => \E b \in DOMAIN history' : nodes' = RowsOf(b)'
    BY <1>1, <1>2, <2>1 DEF RewritesApart, RowsOf
  <2>3. /\ \A f \in Edits : UnderWay(f)' => edit'[f].seen = version'
        /\ \A f \in Edits : edit'[f].pc = "wiped" => edit'[f].wiped = nodes'
    BY <1>1, <1>2, <1>3, <1>4, <2>1 DEF RewritesApart
  <2>4. ASSUME NEW b, NEW h, Named(b, h) PROVE Named(b, h)'
    BY <1>2, <2>4 DEF Named, RowsOf
  <2>5. ASSUME NEW c \in Chats PROVE CommitIsNamed(c)'
    <3>1. PICK b, h : b = edit[c].seen /\ h = edit[c].draft
      OBVIOUS
    <3>2. edit'[c].pc = "committed" => edit'[c] = edit[c]
      BY <1>3, <1>4, <1>5
    <3>3. edit'[c].pc = "committed" => Named(b, h)'
      BY <1>1, <2>4, <3>1, <3>2 DEF RewritesApart, CommitIsNamed
    <3> QED
      BY <3>1, <3>2, <3>3 DEF CommitIsNamed, Named, RowsOf
  <2>6. ASSUME NEW c \in Chats PROVE MutationIsNamed(c)'
    <3>1. CASE c # e
      <4>1. PICK b, h : b = mutation[c].version - 1 /\ h = mutation[c].after
        OBVIOUS
      <4>2. mutation'[c].status # "none" => Named(b, h)'
        BY <1>1, <1>6, <2>4, <3>1, <4>1 DEF RewritesApart, MutationIsNamed
      <4> QED
        BY <1>6, <3>1, <4>1, <4>2 DEF MutationIsNamed, Named, RowsOf
    <3>2. CASE c = e
      <4>1. PICK b, h : b = edit[c].seen /\ h = edit[c].draft
        OBVIOUS
      <4>2. Named(b, h)'
        BY <1>1, <2>4, <3>2, <4>1 DEF RewritesApart, CommitIsNamed
      <4>3. b \in Nat /\ mutation'[c].version - 1 = b /\ mutation'[c].after = h
        BY <1>1, <1>6, <3>2, <4>1 DEF Rewrite
      <4> QED
        BY <4>2, <4>3 DEF MutationIsNamed, Named, RowsOf
    <3> QED
      BY <3>1, <3>2
  <2> QED
    BY <2>2, <2>3, <2>5, <2>6 DEF RewritesApart
<1> QED
  BY <1>7, <1>8, <1>9, <1>10 DEF AuthoringInv

\* A run being created reads the nodes.
LEMMA ReadNodeRowsHolds == AuthoringInv /\ ReadNodeRows => AuthoringInv'
<1> SUFFICES ASSUME AuthoringInv, ReadNodeRows PROVE AuthoringInv'
  OBVIOUS
<1>1. AuthoringTypes /\ RowsAreDrafts /\ RewritesApart /\ UndosFit
  BY DEF AuthoringInv
<1>2. /\ reader' = [pc |-> "nodes", rows |-> nodes, start |-> Len(history)]
      /\ reader'.rows = nodes /\ reader'.start = Len(history)
      /\ UNCHANGED <<nodes, links, version, history, edit, mutation, snapshots, overlapped>>
  BY DEF ReadNodeRows
<1>3. AuthoringTypes'
  BY <1>1, <1>2 DEF AuthoringTypes
<1>4. RowsAreDrafts'
  BY <1>1, <1>2 DEF RowsAreDrafts, WholeDrafts, LinksOf, RowsOf, KeysApart
<1>5. RewritesApart'
  BY <1>1, <1>2 DEF RewritesApart, UnderWay, CommitIsNamed, MutationIsNamed, Named, RowsOf
<1>6. UndosFit'
  BY <1>1, <1>2 DEF UndosFit
<1> QED
  BY <1>3, <1>4, <1>5, <1>6 DEF AuthoringInv

\* Then it reads the edges and freezes both.
LEMMA ReadEdgeRowsHolds == AuthoringInv /\ ReadEdgeRows => AuthoringInv'
<1> SUFFICES ASSUME AuthoringInv, ReadEdgeRows PROVE AuthoringInv'
  OBVIOUS
<1>1. AuthoringTypes /\ RowsAreDrafts /\ RewritesApart /\ UndosFit
  BY DEF AuthoringInv
<1>2. /\ reader' = [reader EXCEPT !.pc = "idle", !.rows = {}]
      /\ UNCHANGED <<nodes, links, version, history, edit, mutation, overlapped>>
      /\ \A s \in snapshots' : s \in snapshots \/ s.rows = reader.rows
  BY DEF ReadEdgeRows
<1>3. AuthoringTypes'
  BY <1>1, <1>2 DEF AuthoringTypes
<1>4. RowsAreDrafts'
  BY <1>1, <1>2 DEF RowsAreDrafts, WholeDrafts, LinksOf, RowsOf, KeysApart
<1>5. RewritesApart'
  BY <1>1, <1>2 DEF RewritesApart, UnderWay, CommitIsNamed, MutationIsNamed, Named, RowsOf
<1>6. UndosFit'
  BY <1>1, <1>2 DEF UndosFit
<1> QED
  BY <1>3, <1>4, <1>5, <1>6 DEF AuthoringInv

LEMMA AuthoringNextHolds == AuthoringInv /\ [AuthoringNext]_authoringVars => AuthoringInv'
<1> SUFFICES ASSUME AuthoringInv, [AuthoringNext]_authoringVars PROVE AuthoringInv'
  OBVIOUS
<1>1. ASSUME NEW e \in Edits, RewriteStep(e) PROVE AuthoringInv'
  <2>1. CASE LoadForPut(e)
    BY <2>1, LoadForPutHolds
  <2>2. CASE LoadForPatch(e)
    BY <2>2, LoadForPatchHolds
  <2>3. CASE LoadForChat(e)
    BY <2>3, LoadForChatHolds
  <2>4. CASE ReadEdges(e)
    BY <2>4, ReadEdgesHolds
  <2>5. CASE \E c \in Chats : LoadForUndo(e, c)
    BY <2>5, LoadForUndoHolds
  <2>6. CASE ModelAnswers(e)
    BY <2>6, ModelAnswersHolds
  <2>7. CASE Wipe(e)
    BY <2>7, WipeHolds
  <2>8. CASE Insert(e)
    BY <2>8, InsertHolds
  <2>9. CASE Patch(e)
    BY <2>9, PatchHolds
  <2>10. CASE Record(e)
    BY <2>10, RecordHolds
  <2> QED
    BY <1>1, <2>1, <2>2, <2>3, <2>4, <2>5, <2>6, <2>7, <2>8, <2>9, <2>10 DEF RewriteStep
<1>2. ASSUME NEW e \in Edits, EditDies(e) PROVE AuthoringInv'
  BY <1>2, EditDiesHolds
<1>3. CASE ReadNodeRows
  BY <1>3, ReadNodeRowsHolds
<1>4. CASE ReadEdgeRows
  BY <1>4, ReadEdgeRowsHolds
<1>5. CASE UNCHANGED authoringVars
  BY <1>5 DEF authoringVars, AuthoringInv, AuthoringTypes, RowsAreDrafts, RewritesApart, UndosFit,
       WholeDrafts, LinksOf, RowsOf, KeysApart, UnderWay, CommitIsNamed, MutationIsNamed, Named
<1> QED
  BY <1>1, <1>2, <1>3, <1>4, <1>5 DEF AuthoringNext

LEMMA AuthoringSpecHolds == AuthoringSpec => []AuthoringInv
BY AuthoringInitHolds, AuthoringNextHolds, PTL DEF AuthoringSpec

\* The rows of a committed graph carry the links of that graph and no other.
LEMMA LinksOfRows ==
    ASSUME AuthoringInv, NEW b \in DOMAIN history
    PROVE  LinksOf(RowsOf(b)) = LinkRows(history[b], b)
<1>1. PICK g \in Proper : g = history[b]
  BY DEF AuthoringInv, AuthoringTypes
<1>2. \A n \in RowsOf(b) : n.batch = b
  BY DEF RowsOf, NodeRows
<1>3. ASSUME NEW l \in LinkRows(g, b) PROVE l \in LinksOf(RowsOf(b))
  <2>1. PICK x \in g.edges : l = [batch |-> b, from |-> x[1], to |-> x[2]]
    BY DEF LinkRows
  <2>2. x \in g.keys \X g.keys
    BY ProperGraphs
  <2>3. [key |-> x[1], batch |-> b] \in RowsOf(b)
    BY <1>1, <2>2 DEF NodeRows, RowsOf
  <2>4. PICK n \in RowsOf(b) : n.batch = b
    BY <1>2, <2>3
  <2> QED
    BY <1>1, <2>4 DEF LinksOf
<1>4. ASSUME NEW l \in LinksOf(RowsOf(b)) PROVE l \in LinkRows(g, b)
  BY <1>1, <1>2 DEF LinksOf
<1> QED
  BY <1>1, <1>3, <1>4

\* An edge of the workflow joins two rows that are there, and no two rows share
\* a key, whoever rewrites the graph when (replace_workflow_graph).
THEOREM AuthoredReferencesHold == AuthoringSpec => []ReferencesHold
<1>1. AuthoringInv => ReferencesHold
  <2> SUFFICES ASSUME AuthoringInv PROVE ReferencesHold
    OBVIOUS
  <2>1. WholeDrafts(nodes) /\ KeysApart(nodes) /\ links = LinksOf(nodes)
    BY DEF AuthoringInv, RowsAreDrafts
  <2>0. \A n \in nodes : n.batch \in Nat
    BY DEF AuthoringInv, AuthoringTypes, Row
  <2>2. ASSUME NEW l \in links
        PROVE  /\ [key |-> l.from, batch |-> l.batch] \in nodes
               /\ [key |-> l.to, batch |-> l.batch] \in nodes
    <3>1. PICK n \in nodes : l \in LinkRows(history[n.batch], n.batch)
      BY <2>1 DEF LinksOf
    <3>2. PICK g \in Proper, b \in Nat : g = history[n.batch] /\ b = n.batch
      BY <2>0, <2>1 DEF WholeDrafts, AuthoringInv, AuthoringTypes
    <3>3. PICK x \in g.edges : l = [batch |-> b, from |-> x[1], to |-> x[2]]
      BY <3>1, <3>2 DEF LinkRows
    <3>4. x \in g.keys \X g.keys
      BY ProperGraphs
    <3>5. {[key |-> x[1], batch |-> b], [key |-> x[2], batch |-> b]} \subseteq NodeRows(g, b)
      BY <3>4 DEF NodeRows
    <3>6. NodeRows(g, b) \subseteq nodes
      BY <2>1, <3>2 DEF WholeDrafts, RowsOf
    <3> QED
      BY <3>3, <3>5, <3>6
  <2> QED
    BY <2>1, <2>2 DEF ReferencesHold, KeysApart
<1> QED
  BY <1>1, AuthoringSpecHolds, PTL

\* While rewrites do not meet, the version numbers the graphs and the live graph
\* is one draft with all its nodes and edges (replace_workflow_graph).
THEOREM ApartGraphsAreOneDraft == AuthoringSpec => []ApartGraphIsOneDraft
<1>1. AuthoringInv => ApartGraphIsOneDraft
  <2> SUFFICES ASSUME AuthoringInv, ~overlapped PROVE ApartGraphIsOneDraft
    BY DEF ApartGraphIsOneDraft
  <2>1. version = Len(history) + 1 /\ (nodes # {} => \E b \in DOMAIN history : nodes = RowsOf(b))
    BY DEF AuthoringInv, RewritesApart
  <2>2. ASSUME NEW b \in DOMAIN history, nodes = RowsOf(b)
        PROVE  nodes = NodeRows(history[b], b) /\ links = LinkRows(history[b], b)
    <3>1. links = LinksOf(RowsOf(b))
      BY <2>2 DEF AuthoringInv, RowsAreDrafts
    <3> QED
      BY <2>2, <3>1, LinksOfRows DEF RowsOf
  <2> QED
    BY <2>1, <2>2 DEF ApartGraphIsOneDraft
<1> QED
  BY <1>1, AuthoringSpecHolds, PTL

\* The edges a run's creation reads, draft by draft.
LEMMA EdgesRead ==
    ASSUME AuthoringInv, NEW n \in reader.rows, NEW g, g = history[n.batch]
    PROVE  LET edges == {x \in Content(reader.rows, links).edges : x[1] \in g.keys}
           IN  edges = IF n \in nodes THEN g.edges ELSE {}
<1> DEFINE edges == {x \in Content(reader.rows, links).edges : x[1] \in g.keys}
           b == n.batch
<1>1. /\ WholeDrafts(nodes) /\ links = LinksOf(nodes)
      /\ WholeDrafts(reader.rows) /\ KeysApart(reader.rows)
  BY DEF AuthoringInv, RowsAreDrafts
<1>0. \A m \in nodes : m.batch \in Nat
  BY DEF AuthoringInv, AuthoringTypes, Row
<1>2. /\ b \in DOMAIN history /\ g \in Proper /\ n \in NodeRows(g, b)
      /\ NodeRows(g, b) \subseteq reader.rows
  BY <1>1 DEF WholeDrafts, RowsOf, AuthoringInv, AuthoringTypes
<1>3. ASSUME NEW x \in edges PROVE n \in nodes /\ x \in g.edges
  <2>1. PICK l \in links : /\ x = <<l.from, l.to>>
                           /\ [key |-> l.from, batch |-> l.batch] \in reader.rows
    BY DEF Content
  <2>2. PICK m \in nodes : l \in LinkRows(history[m.batch], m.batch)
    BY <1>1 DEF LinksOf
  <2>3. PICK h \in Proper, d \in Nat : h = history[m.batch] /\ d = m.batch
    BY <1>0, <1>1 DEF WholeDrafts, AuthoringInv, AuthoringTypes
  <2>4. PICK y \in h.edges : l = [batch |-> d, from |-> y[1], to |-> y[2]]
    BY <2>2, <2>3 DEF LinkRows
  <2>5. x = y
    BY <2>1, <2>4, ProperGraphs
  <2>6. [key |-> x[1], batch |-> b] \in reader.rows
    BY <1>2 DEF NodeRows
  <2>7. d = b
    <3>1. PICK p \in reader.rows : p = [key |-> x[1], batch |-> b]
      BY <2>6
    <3>2. PICK q \in reader.rows : q = [key |-> y[1], batch |-> d]
      BY <2>1, <2>4
    <3> QED
      BY <1>1, <2>5, <3>1, <3>2 DEF KeysApart
  <2>8. n \in nodes
    BY <1>1, <1>2, <2>3, <2>7 DEF WholeDrafts, RowsOf
  <2> QED
    BY <2>3, <2>5, <2>7, <2>8
<1>4. ASSUME n \in nodes, NEW x \in g.edges PROVE x \in edges
  <2>1. x \in g.keys \X g.keys
    BY <1>2, ProperGraphs
  <2>2. [batch |-> b, from |-> x[1], to |-> x[2]] \in LinkRows(g, b)
    BY DEF LinkRows
  <2>3. PICK l \in links : l = [batch |-> b, from |-> x[1], to |-> x[2]]
    BY <1>1, <1>4, <2>2 DEF LinksOf
  <2>4. /\ [key |-> l.from, batch |-> l.batch] \in reader.rows
        /\ [key |-> l.to, batch |-> l.batch] \in reader.rows
    BY <1>2, <2>1, <2>3 DEF NodeRows
  <2>5. x = <<l.from, l.to>>
    BY <2>1, <2>3
  <2> QED
    BY <2>1, <2>4, <2>5 DEF Content
<1> QED
  BY <1>3, <1>4

\* Snapshots stay whole when the graph is rewritten under them.
LEMMA SnapshotsStand ==
    ASSUME AuthoringInv, SnapshotsAreWhole, UNCHANGED snapshots,
           UNCHANGED history \/ \E g \in Proper : history' = Append(history, g)
    PROVE  SnapshotsAreWhole'
<1>1. ASSUME NEW s \in snapshots, NEW n \in s.rows PROVE history'[n.batch] = history[n.batch]
  <2>1. n.batch \in DOMAIN history
    BY <1>1 DEF AuthoringInv, RowsAreDrafts, WholeDrafts
  <2> QED
    BY <2>1, HistoryGrows
<1> QED
  BY <1>1 DEF SnapshotsAreWhole

\* A run's snapshot holds whole drafts, and of each all its edges unless the graph
\* was rewritten between the two reads of build_graph_snapshot.
THEOREM SnapshotsStayWhole == AuthoringSpec => []SnapshotsAreWhole
<1>1. AuthoringInit => SnapshotsAreWhole
  BY DEF AuthoringInit, SnapshotsAreWhole
<1>2. AuthoringInv /\ SnapshotsAreWhole /\ [AuthoringNext]_authoringVars => SnapshotsAreWhole'
  <2> SUFFICES ASSUME AuthoringInv, SnapshotsAreWhole, [AuthoringNext]_authoringVars
               PROVE  SnapshotsAreWhole'
    OBVIOUS
  <2>1. CASE ReadEdgeRows
    <3>1. PICK s : /\ s = [rows |-> reader.rows, graph |-> Content(reader.rows, links),
                           calm |-> reader.start = Len(history)]
                   /\ snapshots' = snapshots \cup {s} /\ history' = history
                   /\ reader.pc = "nodes"
      BY <2>1 DEF ReadEdgeRows
    <3>2. ASSUME NEW n \in s.rows
          PROVE  LET b == n.batch
                     edges == {x \in s.graph.edges : x[1] \in history[b].keys}
                 IN  /\ NodeRows(history[b], b) \subseteq s.rows
                     /\ edges = history[b].edges \/ (edges = {} /\ ~s.calm)
      <4>1. WholeDrafts(reader.rows) /\ (reader.start = Len(history) => reader.rows = nodes)
        BY <3>1 DEF AuthoringInv, RowsAreDrafts
      <4>2. s.rows = reader.rows /\ s.graph = Content(reader.rows, links)
            /\ (s.calm => reader.start = Len(history))
        BY <3>1
      <4>3. NodeRows(history[n.batch], n.batch) \subseteq s.rows
        BY <4>1, <4>2 DEF WholeDrafts, RowsOf
      <4>4. PICK g, k : g = history[n.batch] /\ k = {x \in s.graph.edges : x[1] \in g.keys}
        OBVIOUS
      <4>5. k = IF n \in nodes THEN g.edges ELSE {}
        BY <4>2, <4>4, EdgesRead
      <4> QED
        BY <4>1, <4>2, <4>3, <4>4, <4>5
    <3> QED
      BY <3>1, <3>2 DEF SnapshotsAreWhole
  <2>2. CASE ReadNodeRows \/ UNCHANGED authoringVars
    BY <2>2, SnapshotsStand DEF ReadNodeRows, authoringVars
  <2>3. ASSUME NEW e \in Edits, RewriteStep(e) PROVE SnapshotsAreWhole'
    <3>1. CASE Insert(e)
      <4>1. edit[e].draft \in Proper
        BY DEF AuthoringInv, AuthoringTypes, Rewrite
      <4>2. UNCHANGED snapshots /\ (UNCHANGED history \/ history' = Append(history, edit[e].draft))
        BY <3>1 DEF Insert
      <4> QED
        BY <4>1, <4>2, SnapshotsStand
    <3>2. CASE Patch(e)
      BY <3>2, ProperGraphs, SnapshotsStand DEF Patch
    <3>3. CASE ~Insert(e) /\ ~Patch(e)
      <4>1. UNCHANGED <<snapshots, history>>
        BY <2>3, <3>3 DEF RewriteStep, LoadForPut, LoadForPatch, LoadForChat, ReadEdges,
             LoadForUndo, ModelAnswers, Wipe, Record
      <4> QED
        BY <4>1, SnapshotsStand
    <3> QED
      BY <3>1, <3>2, <3>3
  <2>4. ASSUME NEW e \in Edits, EditDies(e) PROVE SnapshotsAreWhole'
    BY <2>4, SnapshotsStand DEF EditDies
  <2> QED
    BY <2>1, <2>2, <2>3, <2>4 DEF AuthoringNext
<1> QED
  BY <1>1, <1>2, AuthoringSpecHolds, PTL DEF AuthoringSpec

\* Only the INSERTs of a request commit a graph.
LEMMA OnlyInsertCommits ==
    ASSUME AuthoringInv, [AuthoringNext]_authoringVars, NEW u \in Undos,
           edit[u].pc = "wiped", edit'[u].pc = "committed"
    PROVE  Insert(u)
<1>1. edit \in [Edits -> Rewrite] /\ u \in Edits
  BY DEF AuthoringInv, AuthoringTypes, Edits
<1>2. ASSUME NEW e \in Edits, e # u, edit' = [edit EXCEPT ![e] = edit'[e]] PROVE FALSE
  BY <1>1, <1>2
<1>3. ASSUME NEW e \in Edits, RewriteStep(e) PROVE e = u
  <2>1. edit' = [edit EXCEPT ![e] = edit'[e]]
    BY <1>1, <1>3 DEF RewriteStep, LoadForPut, LoadForPatch, LoadForChat, ReadEdges,
         LoadForUndo, ModelAnswers, Wipe, Insert, Patch, Record, Becomes
  <2> QED
    BY <1>2, <2>1
<1>4. RewriteStep(u) => Insert(u)
  BY DEF RewriteStep, LoadForPut, LoadForPatch, LoadForChat, ReadEdges, LoadForUndo,
       ModelAnswers, Wipe, Patch, Record
<1>5. ASSUME NEW e \in Edits, EditDies(e) PROVE FALSE
  <2>1. edit' = [edit EXCEPT ![e] = edit'[e]] /\ edit'[e].pc \in {"failed", "idle"}
    BY <1>1, <1>5 DEF EditDies, Becomes, FreshEdit, Rewrite
  <2> QED
    BY <1>2, <2>1
<1>6. ~ReadNodeRows /\ ~ReadEdgeRows /\ ~UNCHANGED authoringVars
  BY DEF ReadNodeRows, ReadEdgeRows, authoringVars
<1> QED
  BY <1>3, <1>4, <1>5, <1>6 DEF AuthoringNext

\* While rewrites do not meet, an undo replaces the graph its edit made by the
\* graph that edit replaced (undo_mutation, which asks for the version only).
THEOREM UndosTakeBackTheirEdits == AuthoringSpec => UndoTakesBackItsEdit
<1>1. AuthoringInv /\ [AuthoringNext]_authoringVars
        => [~overlapped => \A u \in Undos : TakesBack(u)]_authoringVars
  <2> SUFFICES ASSUME AuthoringInv, [AuthoringNext]_authoringVars, NEW u \in Undos,
                      edit[u].pc = "wiped", edit'[u].pc = "committed", ~overlapped,
                      NEW c \in edit[u].of
               PROVE  /\ Content(nodes, links) = mutation[c].after
                      /\ Content(nodes', links') = mutation[c].before
    BY DEF TakesBack
  <2>1. /\ u \in Edits /\ edit[u] \in Rewrite /\ c \in Chats /\ version = Len(history) + 1
        /\ Len(history) \in Nat /\ mutation[c] \in Mutation
    BY DEF AuthoringInv, AuthoringTypes, RewritesApart, Rewrite, Edits
  <2>2. mutation[c].status # "none" /\ edit[u].seen = mutation[c].version
        /\ edit[u].draft = mutation[c].before
    BY DEF AuthoringInv, UndosFit
  <2>3. edit[u].seen = version /\ edit[u].wiped = nodes
    BY <2>1 DEF AuthoringInv, RewritesApart, UnderWay
  <2>4. PICK b \in Nat, g \in Proper, h \in Proper :
           /\ b = Len(history) /\ g = mutation[c].after /\ h = mutation[c].before
    BY <2>1 DEF Mutation
  <2>5. b = mutation[c].version - 1
    BY <2>1, <2>2, <2>3, <2>4
  <2>6. b \in DOMAIN history /\ history[b] = g /\ nodes = RowsOf(b)
    BY <2>1, <2>2, <2>4, <2>5 DEF AuthoringInv, RewritesApart, MutationIsNamed, Named
  <2>7. links = LinksOf(RowsOf(b))
    BY <2>6 DEF AuthoringInv, RowsAreDrafts
  <2>8. nodes = NodeRows(g, b) /\ links = LinkRows(g, b)
    BY <2>6, <2>7, LinksOfRows DEF RowsOf
  <2>9. Content(nodes, links) = g
    BY <2>8, ContentOfRows
  <2>10. Insert(u)
    BY OnlyInsertCommits
  <2>11. edit'[u].pc # "failed"
    OBVIOUS
  <2>12. nodes' = NodeRows(h, Len(history) + 1) /\ links' = LinkRows(h, Len(history) + 1)
    BY <2>1, <2>2, <2>3, <2>4, <2>10, <2>11 DEF Insert, Becomes, AuthoringInv, AuthoringTypes
  <2>13. Content(nodes', links') = h
    BY <2>12, ContentOfRows
  <2> QED
    BY <2>4, <2>9, <2>13
<1> QED
  BY <1>1, AuthoringInitHolds, AuthoringNextHolds, PTL
  DEF AuthoringSpec, UndoTakesBackItsEdit

(***************************************************************************)
(* MiniAppBuild: what is served, and what an undo puts back.               *)
(***************************************************************************)
EditStep == {"idle", "asking", "applied", "undoing", "restored", "queued", "tookBack",
             "undidUndo", "ended"}
BuildState == [pc : {"idle", "marked", "generated", "bundled", "broken"}, schema : Schemas]
MutationState == [status : {"none", "applied", "undone"}, before : AppRow, version : Nat,
                  replaced : Schemas, alone : BOOLEAN]
EditState == [pc : EditStep, known : AppRow, before : AppRow, of : SUBSET AppChats,
              undoes : MutationState]

AppTypes ==
    /\ app \in AppRow /\ clock \in Nat /\ app.updated <= clock
    /\ bundle \in Schemas \cup {NoBundle} /\ workDir \in Schemas \cup {NoBundle}
    /\ buildJobs \in Nat /\ appFaults \in Nat /\ buildsMet \in BOOLEAN
    /\ build \in [Builders -> BuildState]
    /\ appEdit \in [AppEdits -> EditState]
    /\ appMutation \in [AppChats -> MutationState]

\* A bundle stays, so that a row that was `ready` once may be put back.
Served(row) == row.status = "ready" => bundle # NoBundle

\* What an edit has in hand.
EditFits(e) ==
    /\ Served(appEdit[e].known) /\ Served(appEdit[e].before) /\ Served(appEdit[e].undoes.before)
    /\ appEdit[e].known.updated <= clock
    /\ appEdit[e].pc \in {"asking", "undoing"} /\ appEdit[e].known.updated = app.updated
         => appEdit[e].known.schema = app.schema
    /\ appEdit[e].pc = "asking" => appEdit[e].before = appEdit[e].known
    /\ appEdit[e].pc = "undoing" => appEdit[e].known.updated = appEdit[e].undoes.version
    /\ appEdit[e].undoes.alone
         => appEdit[e].undoes.before.schema = appEdit[e].undoes.replaced

\* What a message has left for its undo.
MutationFits(c) ==
    /\ Served(appMutation[c].before)
    /\ appMutation[c].alone => appMutation[c].before.schema = appMutation[c].replaced

ServedInv ==
    /\ AppTypes
    /\ Served(app)
    /\ \A w \in Builders : build[w].pc = "bundled" => bundle # NoBundle
    /\ \A e \in AppEdits : EditFits(e)
    /\ \A c \in AppChats : MutationFits(c)

LEMMA AppRowsOfOld ==
    /\ Created \in AppRow /\ Created.status = "pending" /\ Created.updated = 0
    /\ NoAppMutation \in MutationState /\ NoAppMutation.before = Created
    /\ NoAppMutation.before.schema = NoAppMutation.replaced
    /\ IdleEdit \in EditState /\ IdleEdit.pc = "idle" /\ IdleEdit.known = Created
    /\ IdleEdit.before = Created /\ IdleEdit.undoes = NoAppMutation
    /\ IdleBuild \in BuildState /\ IdleBuild.pc = "idle"
<1>1. Created \in AppRow /\ Created.status = "pending" /\ Created.updated = 0
  BY AppAssumption DEF Created, AppRow, BuildStatus
<1>2. /\ NoAppMutation.before = Created /\ NoAppMutation \in MutationState
      /\ NoAppMutation.before.schema = NoAppMutation.replaced
  BY <1>1, AppAssumption DEF NoAppMutation, MutationState, Created
<1>3. /\ IdleEdit \in EditState /\ IdleEdit.pc = "idle" /\ IdleEdit.known = Created
      /\ IdleEdit.before = Created /\ IdleEdit.undoes = NoAppMutation
  BY <1>1, <1>2 DEF IdleEdit, EditState, EditStep
<1>4. IdleBuild \in BuildState /\ IdleBuild.pc = "idle"
  BY AppAssumption DEF IdleBuild, BuildState
<1> QED
  BY <1>1, <1>2, <1>3, <1>4

LEMMA AppInitHolds == AppInit => ServedInv
<1> SUFFICES ASSUME AppInit PROVE ServedInv
  OBVIOUS
<1>1. AppTypes
  <2>1. app \in AppRow /\ clock \in Nat /\ app.updated <= clock
    BY AppRowsOfOld DEF AppInit
  <2>2. /\ bundle \in Schemas \cup {NoBundle} /\ workDir \in Schemas \cup {NoBundle}
        /\ buildJobs \in Nat /\ appFaults \in Nat /\ buildsMet \in BOOLEAN
    BY DEF AppInit
  <2>3. /\ build \in [Builders -> BuildState] /\ appEdit \in [AppEdits -> EditState]
        /\ appMutation \in [AppChats -> MutationState]
    BY AppRowsOfOld DEF AppInit
  <2> QED
    BY <2>1, <2>2, <2>3 DEF AppTypes
<1>2. Served(app) /\ \A w \in Builders : build[w].pc # "bundled"
  BY AppRowsOfOld DEF AppInit, Served
<1>3. ASSUME NEW e \in AppEdits PROVE EditFits(e)
  BY AppRowsOfOld DEF AppInit, EditFits, Served
<1>4. ASSUME NEW c \in AppChats PROVE MutationFits(c)
  BY AppRowsOfOld DEF AppInit, MutationFits, Served
<1> QED
  BY <1>1, <1>2, <1>3, <1>4 DEF ServedInv

\* The UPDATE of a flush, with a new time.
LEMMA FlushedRow ==
    ASSUME NEW row \in AppRow, NEW known \in AppRow, NEW wanted \in AppRow,
           NEW n \in Nat, known.updated <= n,
           NEW new, new = Flush(row, known, [wanted EXCEPT !.updated = n + 1])
    PROVE  /\ new \in AppRow /\ new.updated = n + 1
           /\ new.schema = IF wanted.schema # known.schema THEN wanted.schema ELSE row.schema
           /\ new.status \in {wanted.status, row.status}
<1> DEFINE w == [wanted EXCEPT !.updated = n + 1]
<1>1. /\ w.updated = n + 1 /\ w.schema = wanted.schema /\ w.status = wanted.status
      /\ DOMAIN row = {"schema", "status", "updated"}
  BY DEF AppRow
<1> HIDE DEF w
<1>2. new = [f \in {"schema", "status", "updated"} |-> IF w[f] # known[f] THEN w[f] ELSE row[f]]
  BY <1>1 DEF Flush, w
<1>3. /\ new.updated = IF w.updated # known.updated THEN w.updated ELSE row.updated
      /\ new.schema = IF w.schema # known.schema THEN w.schema ELSE row.schema
      /\ new.status = IF w.status # known.status THEN w.status ELSE row.status
  BY <1>2
<1>4. known.updated \in Nat /\ row.schema \in Schemas /\ row.status \in BuildStatus
      /\ wanted.schema \in Schemas /\ wanted.status \in BuildStatus
  BY DEF AppRow
<1>5. new.updated = n + 1
  BY <1>1, <1>3, <1>4
<1>6. new.schema \in Schemas /\ new.status \in BuildStatus /\ new.updated \in Nat
  BY <1>1, <1>3, <1>4, <1>5
<1>7. new = [schema |-> new.schema, status |-> new.status, updated |-> new.updated]
  BY <1>2
<1>8. new \in AppRow
  BY <1>6, <1>7 DEF AppRow
<1> QED
  BY <1>1, <1>3, <1>5, <1>8

\* An edit goes on, or a build does: the row is as it was but for the status.
LEMMA RowStands ==
    ASSUME ServedInv, AppTypes', app'.schema = app.schema, app'.updated = app.updated,
           bundle # NoBundle => bundle' # NoBundle, Served(app)', clock' = clock,
           \A w \in Builders : build'[w].pc = "bundled" => bundle' # NoBundle,
           \A e \in AppEdits : appEdit'[e] = appEdit[e] \/ EditFits(e)',
           \A c \in AppChats : appMutation'[c] = appMutation[c] \/ MutationFits(c)'
    PROVE  ServedInv'
<1>1. ASSUME NEW e \in AppEdits, appEdit'[e] = appEdit[e] PROVE EditFits(e)'
  BY <1>1 DEF ServedInv, EditFits, Served
<1>2. ASSUME NEW c \in AppChats, appMutation'[c] = appMutation[c] PROVE MutationFits(c)'
  BY <1>2 DEF ServedInv, MutationFits, Served
<1> QED
  BY <1>1, <1>2 DEF ServedInv

LEMMA RowCommitted ==
    ASSUME ServedInv, AppTypes', clock' = clock + 1, app'.updated = clock + 1, Served(app)',
           UNCHANGED <<bundle, build>>,
           \A e \in AppEdits : appEdit'[e] = appEdit[e] \/ EditFits(e)',
           \A c \in AppChats : appMutation'[c] = appMutation[c] \/ MutationFits(c)'
    PROVE  ServedInv'
<1>1. ASSUME NEW e \in AppEdits, appEdit'[e] = appEdit[e] PROVE EditFits(e)'
  <2>1. appEdit[e].known.updated \in Nat /\ clock \in Nat /\ appEdit[e].known.updated <= clock
    BY DEF ServedInv, EditFits, AppTypes, EditState, AppRow
  <2>2. appEdit'[e].known.updated # app'.updated /\ appEdit'[e].known.updated <= clock'
    BY <1>1, <2>1
  <2> QED
    BY <1>1, <2>2 DEF ServedInv, EditFits, Served
<1>2. ASSUME NEW c \in AppChats, appMutation'[c] = appMutation[c] PROVE MutationFits(c)'
  BY <1>2 DEF ServedInv, MutationFits, Served
<1> QED
  BY <1>1, <1>2 DEF ServedInv

LEMMA StartBuildServed ==
    ASSUME ServedInv, NEW w \in Builders, StartBuild(w)
    PROVE  ServedInv'
<1>1. /\ app \in AppRow /\ build \in [Builders -> BuildState] /\ buildJobs \in Nat
      /\ app' = [app EXCEPT !.status = "building"]
      /\ build' = [build EXCEPT ![w] = [pc |-> "marked", schema |-> app.schema]]
      /\ UNCHANGED <<bundle, workDir, appEdit, appMutation, clock, appFaults>>
  BY DEF ServedInv, AppTypes, StartBuild
<1>2. /\ app'.schema = app.schema /\ app'.updated = app.updated /\ app'.status = "building"
      /\ app' \in AppRow /\ app.schema \in Schemas
  BY <1>1 DEF AppRow, BuildStatus
<1>3. /\ build' \in [Builders -> BuildState] /\ build'[w].pc = "marked"
      /\ \A v \in Builders \ {w} : build'[v] = build[v]
  BY <1>1, <1>2 DEF BuildState
<1>4. buildJobs' \in Nat /\ buildsMet' \in BOOLEAN
  BY <1>1 DEF StartBuild, ServedInv, AppTypes
<1>5. AppTypes'
  BY <1>1, <1>2, <1>3, <1>4 DEF ServedInv, AppTypes
<1>6. Served(app)' /\ \A v \in Builders : build'[v].pc = "bundled" => bundle' # NoBundle
  BY <1>1, <1>2, <1>3 DEF Served, ServedInv
<1> QED
  BY <1>1, <1>2, <1>5, <1>6, RowStands

LEMMA BuildGoesOnServed ==
    ASSUME ServedInv, NEW w \in Builders, Generate(w) \/ Bundle(w) \/ Persist(w)
    PROVE  ServedInv'
<1>1. /\ app \in AppRow /\ build \in [Builders -> BuildState] /\ AppTypes
      /\ UNCHANGED <<buildJobs, appEdit, appMutation, clock, buildsMet, appFaults>>
  BY DEF ServedInv, AppTypes, Generate, Bundle, Persist
<1>2. /\ build' \in [Builders -> BuildState]
      /\ \A v \in Builders \ {w} : build'[v] = build[v]
      /\ build'[w].pc = "bundled" => Bundle(w) /\ workDir # NoBundle /\ bundle' = workDir
  <2>1. ASSUME NEW pc \in {"idle", "generated", "broken"},
               build' = [build EXCEPT ![w] = [IdleBuild EXCEPT !.pc = pc]]
        PROVE  /\ build' \in [Builders -> BuildState] /\ build'[w].pc = pc
               /\ \A v \in Builders \ {w} : build'[v] = build[v]
    BY <1>1, <2>1, AppRowsOfOld DEF BuildState
  <2>2. CASE Generate(w)
    <3>1. \E pc \in {"generated", "broken"} :
             build' = [build EXCEPT ![w] = [IdleBuild EXCEPT !.pc = pc]]
      BY <2>2 DEF Generate
    <3> QED
      BY <2>1, <3>1
  <2>3. CASE Bundle(w)
    <3>1. \/ build' = [build EXCEPT ![w].pc = "bundled"] /\ workDir # NoBundle /\ bundle' = workDir
          \/ build' = [build EXCEPT ![w].pc = "broken"]
      BY <2>3 DEF Bundle
    <3> QED
      BY <1>1, <2>3, <3>1 DEF BuildState
  <2>4. CASE Persist(w)
    <3>1. build' = [build EXCEPT ![w] = IdleBuild] /\ IdleBuild.pc = "idle"
      BY <2>4, AppRowsOfOld DEF Persist
    <3> QED
      BY <1>1, <3>1, AppRowsOfOld
  <2> QED
    BY <2>2, <2>3, <2>4
<1>3. /\ bundle' \in {bundle, workDir} \ ({NoBundle} \ {bundle})
      /\ workDir' \in Schemas \cup {NoBundle}
  BY <1>1 DEF Generate, Bundle, Persist, AppTypes, BuildState
<1>4. /\ app' \in AppRow /\ app'.schema = app.schema /\ app'.updated = app.updated
      /\ app'.status = "ready" => app' = app \/ build[w].pc = "bundled"
  BY <1>1 DEF Generate, Bundle, Persist, AppRow, BuildStatus
<1>5. AppTypes'
  BY <1>1, <1>2, <1>3, <1>4 DEF AppTypes
<1>6. bundle # NoBundle => bundle' # NoBundle
  BY <1>3
<1>7. Served(app)'
  BY <1>4, <1>6 DEF Served, ServedInv
<1>8. \A v \in Builders : build'[v].pc = "bundled" => bundle' # NoBundle
  BY <1>2, <1>6 DEF ServedInv
<1> QED
  BY <1>1, <1>4, <1>5, <1>6, <1>7, <1>8, RowStands

LEMMA BuilderDiesServed ==
    ASSUME ServedInv, NEW w \in Builders, BuilderDies(w)
    PROVE  ServedInv'
<1>1. /\ AppTypes /\ build' = [build EXCEPT ![w] = IdleBuild]
      /\ buildJobs' \in {buildJobs, buildJobs + 1} /\ appFaults' = appFaults + 1
      /\ UNCHANGED <<app, bundle, workDir, appEdit, appMutation, clock, buildsMet>>
  BY DEF ServedInv, BuilderDies
<1>2. /\ build' \in [Builders -> BuildState] /\ build'[w].pc = "idle"
      /\ \A v \in Builders \ {w} : build'[v] = build[v]
  BY <1>1, AppRowsOfOld DEF AppTypes
<1>3. AppTypes'
  BY <1>1, <1>2 DEF AppTypes
<1>4. Served(app)' /\ \A v \in Builders : build'[v].pc = "bundled" => bundle' # NoBundle
  BY <1>1, <1>2 DEF Served, ServedInv
<1> QED
  BY <1>1, <1>3, <1>4, RowStands

\* A step of one edit that leaves the row.
LEMMA EditAlone ==
    ASSUME ServedInv, NEW e \in AppEdits, NEW new \in EditState,
           appEdit' = [appEdit EXCEPT ![e] = new],
           UNCHANGED <<app, bundle, workDir, build, clock, buildsMet>>,
           buildJobs' \in Nat, appFaults' \in Nat,
           appMutation' \in [AppChats -> MutationState],
           \A c \in AppChats : /\ appMutation'[c].before = appMutation[c].before
                               /\ appMutation'[c].alone = appMutation[c].alone
                               /\ appMutation'[c].replaced = appMutation[c].replaced,
           EditFits(e)'
    PROVE  ServedInv'
<1>1. AppTypes
  BY DEF ServedInv
<1>2. /\ appEdit'[e] = new /\ appEdit' \in [AppEdits -> EditState]
      /\ \A f \in AppEdits \ {e} : appEdit'[f] = appEdit[f]
  BY <1>1 DEF AppTypes
<1>3. AppTypes'
  BY <1>1, <1>2 DEF AppTypes
<1>4. \A c \in AppChats : MutationFits(c)'
  BY DEF ServedInv, MutationFits, Served
<1>5. Served(app)' /\ \A w \in Builders : build'[w].pc = "bundled" => bundle' # NoBundle
  BY DEF Served, ServedInv
<1> QED
  BY <1>2, <1>3, <1>4, <1>5, RowStands

\* An edit that ends, or starts anew.
LEMMA EditRests ==
    ASSUME ServedInv, NEW e \in AppEdits, NEW pc \in {"idle", "ended"},
           appEdit' = [appEdit EXCEPT ![e] = [IdleEdit EXCEPT !.pc = pc]],
           UNCHANGED <<app, bundle, workDir, build, clock, buildsMet>>,
           buildJobs' \in Nat, appFaults' \in Nat,
           appMutation' \in [AppChats -> MutationState],
           \A c \in AppChats : /\ appMutation'[c].before = appMutation[c].before
                               /\ appMutation'[c].alone = appMutation[c].alone
                               /\ appMutation'[c].replaced = appMutation[c].replaced
    PROVE  ServedInv'
<1> DEFINE new == [IdleEdit EXCEPT !.pc = pc]
<1>1. /\ new \in EditState /\ new.pc = pc /\ new.known = Created /\ new.before = Created
      /\ new.undoes = NoAppMutation
  BY AppRowsOfOld DEF EditState, EditStep
<1> HIDE DEF new
<1>2. appEdit' = [appEdit EXCEPT ![e] = new] /\ appEdit'[e] = new
  BY DEF new, ServedInv, AppTypes
<1>3. EditFits(e)'
  <2>1. clock' \in Nat /\ Created.updated = 0
    BY AppRowsOfOld DEF ServedInv, AppTypes
  <2>2. Created.updated <= clock'
    BY <2>1
  <2>3. Served(Created)' /\ NoAppMutation.before = Created
        /\ NoAppMutation.before.schema = NoAppMutation.replaced
    BY AppRowsOfOld DEF Served
  <2> QED
    BY <1>1, <1>2, <2>2, <2>3 DEF EditFits, Served
<1> QED
  BY <1>1, <1>2, <1>3, EditAlone

\* An edit that goes on with what it has in hand.
LEMMA EditGoesOn ==
    ASSUME ServedInv, NEW e \in AppEdits, NEW pc \in EditStep \ {"asking", "undoing"},
           EditGoesTo(e, pc),
           UNCHANGED <<app, bundle, workDir, build, clock, buildsMet, appMutation, appFaults>>,
           buildJobs' \in Nat
    PROVE  ServedInv'
<1> DEFINE new == [appEdit[e] EXCEPT !.pc = pc]
<1>1. appEdit[e] \in EditState /\ appEdit' = [appEdit EXCEPT ![e] = new]
  BY DEF ServedInv, AppTypes, EditGoesTo
<1>2. /\ new \in EditState /\ new.pc = pc /\ new.known = appEdit[e].known
      /\ new.before = appEdit[e].before /\ new.undoes = appEdit[e].undoes
  BY <1>1 DEF EditState
<1> HIDE DEF new
<1>3. appEdit'[e] = new
  BY <1>1 DEF ServedInv, AppTypes
<1>4. EditFits(e)'
  BY <1>2, <1>3 DEF ServedInv, EditFits, Served
<1> QED
  BY <1>1, <1>2, <1>4, EditAlone DEF ServedInv, AppTypes

LEMMA LoadAppServed ==
    ASSUME ServedInv, NEW e \in AppEdits, LoadApp(e)
    PROVE  ServedInv'
<1> DEFINE new == [appEdit[e] EXCEPT !.pc = "asking", !.known = app, !.before = app]
<1>1. /\ appEdit[e] \in EditState /\ appEdit' = [appEdit EXCEPT ![e] = new]
      /\ UNCHANGED <<app, bundle, workDir, buildJobs, build, appMutation, clock, buildsMet,
                     appFaults>>
  BY DEF ServedInv, AppTypes, LoadApp
<1>2. /\ new \in EditState /\ new.pc = "asking" /\ new.known = app
      /\ new.before = app /\ new.undoes = appEdit[e].undoes
  BY <1>1 DEF EditState, ServedInv, AppTypes, EditStep
<1> HIDE DEF new
<1>3. appEdit'[e] = new
  BY <1>1 DEF ServedInv, AppTypes
<1>4. EditFits(e)'
  BY <1>1, <1>2, <1>3 DEF ServedInv, AppTypes, EditFits, Served
<1> QED
  BY <1>1, <1>2, <1>4, EditAlone DEF ServedInv, AppTypes

LEMMA LoadForAppUndoServed ==
    ASSUME ServedInv, NEW e \in AppEdits, NEW c \in AppChats, LoadForAppUndo(e, c)
    PROVE  ServedInv'
<1>1. UNCHANGED <<app, bundle, workDir, buildJobs, build, appMutation, clock, buildsMet,
                  appFaults>>
  BY DEF LoadForAppUndo
<1>2. CASE app.updated = appMutation[c].version
  <2> DEFINE new == [pc |-> "undoing", known |-> app, before |-> app, of |-> {c},
                     undoes |-> appMutation[c]]
  <2>1. appMutation[c] \in MutationState /\ appEdit' = [appEdit EXCEPT ![e] = new]
    BY <1>2 DEF ServedInv, AppTypes, LoadForAppUndo
  <2>2. /\ new \in EditState /\ new.pc = "undoing" /\ new.known = app
        /\ new.before = app /\ new.undoes = appMutation[c]
    BY <2>1 DEF EditState, ServedInv, AppTypes, EditStep
  <2> HIDE DEF new
  <2>3. appEdit'[e] = new
    BY <2>1 DEF ServedInv, AppTypes
  <2>4. EditFits(e)'
    BY <1>1, <1>2, <2>2, <2>3 DEF ServedInv, AppTypes, EditFits, MutationFits, Served
  <2> QED
    BY <1>1, <2>1, <2>2, <2>4, EditAlone DEF ServedInv, AppTypes
<1>3. CASE app.updated # appMutation[c].version
  <2>1. appEdit' = [appEdit EXCEPT ![e] = [IdleEdit EXCEPT !.pc = "ended"]]
    BY <1>3 DEF LoadForAppUndo, EditEnds
  <2> QED
    BY <1>1, <2>1, EditRests DEF ServedInv, AppTypes
<1> QED
  BY <1>2, <1>3

LEMMA MutationsMarked ==
    ASSUME AppTypes, NEW S, NEW status \in {"undone", "applied"}, SetMutations(S, status)
    PROVE  /\ appMutation' \in [AppChats -> MutationState]
           /\ \A c \in AppChats : /\ appMutation'[c].before = appMutation[c].before
                                  /\ appMutation'[c].alone = appMutation[c].alone
                                  /\ appMutation'[c].replaced = appMutation[c].replaced
<1>1. appMutation' = [c \in AppChats |-> IF c \in S THEN [appMutation[c] EXCEPT !.status = status]
                                         ELSE appMutation[c]]
  BY DEF SetMutations
<1>2. ASSUME NEW c \in AppChats
      PROVE  /\ appMutation'[c] \in MutationState
             /\ appMutation'[c].before = appMutation[c].before
             /\ appMutation'[c].alone = appMutation[c].alone
             /\ appMutation'[c].replaced = appMutation[c].replaced
  <2>1. appMutation[c] \in MutationState
    BY DEF AppTypes
  <2>2. appMutation'[c] = IF c \in S THEN [appMutation[c] EXCEPT !.status = status]
                          ELSE appMutation[c]
    BY <1>1
  <2> QED
    BY <2>1, <2>2 DEF MutationState
<1> QED
  BY <1>1, <1>2

\* The commit of a row that was put together from `wanted`.
LEMMA CommittedRow ==
    ASSUME ServedInv, NEW e \in AppEdits, NEW wanted \in AppRow, Served(wanted),
           CommitApp(appEdit[e].known, wanted)
    PROVE  /\ app' \in AppRow /\ app'.updated = clock + 1 /\ clock' = clock + 1
           /\ app'.schema = IF wanted.schema # appEdit[e].known.schema THEN wanted.schema
                            ELSE app.schema
           /\ app'.status = "ready" => bundle # NoBundle
<1>1. /\ app \in AppRow /\ appEdit[e] \in EditState /\ clock \in Nat
      /\ appEdit[e].known.updated <= clock
  BY DEF ServedInv, AppTypes, EditFits
<1>2. appEdit[e].known \in AppRow
  BY <1>1 DEF EditState
<1>3. app' = Flush(app, appEdit[e].known, [wanted EXCEPT !.updated = clock + 1])
      /\ clock' = clock + 1
  BY DEF CommitApp
<1>4. PICK row \in AppRow, known \in AppRow, n \in Nat, new \in {app'} :
          row = app /\ known = appEdit[e].known /\ n = clock /\ new = app'
  BY <1>1, <1>2
<1>5. /\ new \in AppRow /\ new.updated = n + 1
      /\ new.schema = IF wanted.schema # known.schema THEN wanted.schema ELSE row.schema
      /\ new.status \in {wanted.status, row.status}
  BY <1>1, <1>3, <1>4, FlushedRow
<1>6. app'.status = "ready" => bundle # NoBundle
  BY <1>4, <1>5 DEF ServedInv, Served
<1> QED
  BY <1>3, <1>4, <1>5, <1>6

\* It takes the edit on, with the row it wrote in hand.
LEMMA EditCommits ==
    ASSUME ServedInv, NEW e \in AppEdits, NEW wanted \in AppRow, Served(wanted),
           CommitApp(appEdit[e].known, wanted),
           NEW pc \in EditStep \ {"asking", "undoing"},
           appEdit' = [appEdit EXCEPT ![e].pc = pc,
                                      ![e].known = [wanted EXCEPT !.updated = clock + 1]],
           UNCHANGED <<bundle, workDir, build, buildJobs, buildsMet>>, appFaults' \in Nat,
           appMutation' \in [AppChats -> MutationState],
           \A c \in AppChats : MutationFits(c)'
    PROVE  ServedInv'
<1>1. AppTypes /\ appEdit[e] \in EditState /\ clock \in Nat
  BY DEF ServedInv, AppTypes
<1> DEFINE row == [wanted EXCEPT !.updated = clock + 1]
           new == [appEdit[e] EXCEPT !.pc = pc, !.known = row]
<1>2. row \in AppRow /\ row.status = wanted.status /\ row.updated = clock + 1
  BY <1>1 DEF AppRow
<1>3. appEdit' = [appEdit EXCEPT ![e] = new]
  OBVIOUS
<1> HIDE DEF row
<1>4. /\ new \in EditState /\ new.pc = pc /\ new.known = row
      /\ new.before = appEdit[e].before /\ new.undoes = appEdit[e].undoes
  BY <1>1, <1>2 DEF EditState
<1> HIDE DEF new
<1>5. /\ appEdit'[e] = new /\ appEdit' \in [AppEdits -> EditState]
      /\ \A f \in AppEdits \ {e} : appEdit'[f] = appEdit[f]
  BY <1>1, <1>3, <1>4 DEF AppTypes
<1>6. /\ app' \in AppRow /\ app'.updated = clock + 1 /\ clock' = clock + 1
      /\ app'.status = "ready" => bundle # NoBundle
  BY CommittedRow
<1>7. AppTypes'
  BY <1>1, <1>5, <1>6 DEF AppTypes
<1>8. EditFits(e)'
  <2>1. new.known.updated <= clock'
    BY <1>1, <1>2, <1>4, <1>6
  <2> QED
    BY <1>2, <1>4, <1>5, <2>1 DEF ServedInv, EditFits, Served
<1>9. Served(app)'
  BY <1>6 DEF Served
<1> QED
  BY <1>5, <1>6, <1>7, <1>8, <1>9, RowCommitted

LEMMA MutationsStay ==
    ASSUME ServedInv, UNCHANGED bundle,
           \A c \in AppChats : /\ appMutation'[c].before = appMutation[c].before
                               /\ appMutation'[c].alone = appMutation[c].alone
                               /\ appMutation'[c].replaced = appMutation[c].replaced
    PROVE  \A c \in AppChats : MutationFits(c)'
BY DEF ServedInv, MutationFits, Served

LEMMA RestoreServed ==
    ASSUME ServedInv, NEW e \in AppEdits, NEW s \in AppRow, Served(s),
           NEW pc \in EditStep \ {"asking", "undoing"}, Restore(e, s, pc),
           UNCHANGED <<bundle, workDir, build, buildJobs, buildsMet>>, appFaults' \in Nat,
           appMutation' \in [AppChats -> MutationState],
           \A c \in AppChats : MutationFits(c)'
    PROVE  ServedInv'
<1>1. /\ CommitApp(appEdit[e].known, s)
      /\ appEdit' = [appEdit EXCEPT ![e].pc = pc, ![e].known = [s EXCEPT !.updated = clock + 1]]
  BY DEF Restore
<1> QED
  BY <1>1, EditCommits

LEMMA ApplySchemaServed ==
    ASSUME ServedInv, NEW e \in AppEdits, NEW s \in Schemas, ApplySchema(e, s)
    PROVE  ServedInv'
<1> DEFINE wanted == [appEdit[e].known EXCEPT !.schema = s, !.status = "pending"]
<1>1. /\ AppTypes /\ appEdit[e] \in EditState /\ appEdit[e].known \in AppRow
      /\ appEdit[e].before \in AppRow /\ app \in AppRow
  BY DEF ServedInv, AppTypes, EditState
<1>2. wanted \in AppRow /\ wanted.status = "pending"
  BY <1>1 DEF AppRow, BuildStatus
<1>3. /\ appEdit[e].pc = "asking" /\ CommitApp(appEdit[e].known, wanted)
      /\ appEdit' = [appEdit EXCEPT ![e].pc = "applied",
                                    ![e].known = [wanted EXCEPT !.updated = clock + 1]]
      /\ UNCHANGED <<bundle, workDir, buildJobs, build, buildsMet, appFaults>>
  BY DEF ApplySchema
<1>4. CASE e \notin AppChats
  <2>1. UNCHANGED appMutation
    BY <1>4 DEF ApplySchema
  <2>2. appMutation' \in [AppChats -> MutationState] /\ \A c \in AppChats : MutationFits(c)'
    BY <1>1, <1>3, <2>1, MutationsStay DEF AppTypes
  <2>3. appFaults' \in Nat /\ Served(wanted)
    BY <1>1, <1>2, <1>3 DEF AppTypes, Served
  <2> HIDE DEF wanted
  <2> QED
    BY <1>2, <1>3, <2>2, <2>3, EditCommits DEF EditStep
<1>5. CASE e \in AppChats
  <2> DEFINE new == [status |-> "applied", before |-> appEdit[e].before,
                     version |-> clock + 1, replaced |-> app.schema,
                     alone |-> app.updated = appEdit[e].known.updated]
  <2>1. appMutation' = [appMutation EXCEPT ![e] = new]
    BY <1>5 DEF ApplySchema
  <2>2. /\ new \in MutationState /\ new.before = appEdit[e].before
        /\ new.replaced = app.schema /\ new.alone = (app.updated = appEdit[e].known.updated)
    BY <1>1 DEF MutationState, AppTypes, AppRow
  <2> HIDE DEF new
  <2>3. /\ appMutation' \in [AppChats -> MutationState] /\ appMutation'[e] = new
        /\ \A c \in AppChats \ {e} : appMutation'[c] = appMutation[c]
    BY <1>1, <1>5, <2>1, <2>2 DEF AppTypes
  <2>4. MutationFits(e)'
    <3>1. Served(appEdit[e].before) /\ appEdit[e].before = appEdit[e].known
          /\ (appEdit[e].known.updated = app.updated => appEdit[e].known.schema = app.schema)
      BY <1>3 DEF ServedInv, EditFits
    <3>2. new.alone => new.before.schema = new.replaced
      BY <2>2, <3>1
    <3> QED
      BY <1>3, <2>2, <2>3, <3>1, <3>2 DEF MutationFits, Served
  <2>5. ASSUME NEW c \in AppChats \ {e} PROVE MutationFits(c)'
    BY <1>3, <2>3 DEF ServedInv, MutationFits, Served
  <2>6. appMutation' \in [AppChats -> MutationState] /\ \A c \in AppChats : MutationFits(c)'
    BY <2>3, <2>4, <2>5
  <2>7. appFaults' \in Nat /\ Served(wanted)
    BY <1>1, <1>2, <1>3 DEF AppTypes, Served
  <2> HIDE DEF wanted
  <2> QED
    BY <1>2, <1>3, <2>6, <2>7, EditCommits DEF EditStep
<1> QED
  BY <1>4, <1>5

LEMMA QueueFailsServed ==
    ASSUME ServedInv, NEW e \in AppEdits, QueueFails(e)
    PROVE  ServedInv'
<1>1. /\ AppTypes /\ appEdit[e] \in EditState /\ appEdit[e].before \in AppRow
      /\ appFaults' \in Nat /\ Served(appEdit[e].before)
      /\ UNCHANGED <<bundle, workDir, buildJobs, build, buildsMet>>
  BY DEF ServedInv, AppTypes, EditState, QueueFails, EditFits
<1>2. CASE e \in AppChats /\ e \notin AppUndos
  <2>1. Restore(e, appEdit[e].before, "tookBack") /\ UNCHANGED appMutation
    BY <1>2 DEF QueueFails
  <2>2. appMutation' \in [AppChats -> MutationState] /\ \A c \in AppChats : MutationFits(c)'
    BY <1>1, <2>1, MutationsStay DEF AppTypes
  <2> QED
    BY <1>1, <2>1, <2>2, RestoreServed DEF EditStep
<1>3. CASE e \in AppUndos
  <2>1. Restore(e, appEdit[e].before, "undidUndo") /\ SetMutations(appEdit[e].of, "undone")
    BY <1>3, AppAssumption DEF QueueFails
  <2>2. /\ appMutation' \in [AppChats -> MutationState]
        /\ \A c \in AppChats : /\ appMutation'[c].before = appMutation[c].before
                               /\ appMutation'[c].alone = appMutation[c].alone
                               /\ appMutation'[c].replaced = appMutation[c].replaced
    BY <1>1, <2>1, MutationsMarked
  <2>3. \A c \in AppChats : MutationFits(c)'
    BY <1>1, <2>2, MutationsStay
  <2> QED
    BY <1>1, <2>1, <2>2, <2>3, RestoreServed DEF EditStep
<1>4. CASE e \notin AppChats /\ e \notin AppUndos
  <2>1. EditEnds(e) /\ UNCHANGED <<app, clock, appMutation>>
    BY <1>4 DEF QueueFails
  <2> QED
    BY <1>1, <2>1, EditRests DEF EditEnds, AppTypes
<1> QED
  BY <1>2, <1>3, <1>4 DEF AppEdits

LEMMA UndoRestoresServed ==
    ASSUME ServedInv, NEW e \in AppEdits, UndoRestores(e)
    PROVE  ServedInv'
<1>1. /\ AppTypes /\ appEdit[e].undoes.before \in AppRow /\ Served(appEdit[e].undoes.before)
  BY DEF ServedInv, AppTypes, EditState, MutationState, EditFits
<1>2. /\ Restore(e, appEdit[e].undoes.before, "restored")
      /\ UNCHANGED <<bundle, workDir, buildJobs, build, appMutation, buildsMet, appFaults>>
  BY DEF UndoRestores
<1>3. appMutation' \in [AppChats -> MutationState] /\ \A c \in AppChats : MutationFits(c)'
  BY <1>1, <1>2, MutationsStay DEF AppTypes
<1> QED
  BY <1>1, <1>2, <1>3, RestoreServed DEF EditStep, AppTypes

LEMMA EditEndsServed ==
    ASSUME ServedInv, NEW e \in AppEdits,
           \/ RefuseSchema(e) \/ QueueBuild(e) \/ UndoRecords(e) \/ MarkAfterFailure(e)
           \/ AppEditDies(e)
    PROVE  ServedInv'
<1>1. /\ AppTypes /\ UNCHANGED <<app, bundle, workDir, build, clock, buildsMet>>
      /\ buildJobs' \in Nat /\ appFaults' \in Nat
  BY DEF ServedInv, AppTypes, RefuseSchema, QueueBuild, UndoRecords, MarkAfterFailure,
         AppEditDies
<1>2. /\ appMutation' \in [AppChats -> MutationState]
      /\ \A c \in AppChats : /\ appMutation'[c].before = appMutation[c].before
                             /\ appMutation'[c].alone = appMutation[c].alone
                             /\ appMutation'[c].replaced = appMutation[c].replaced
  <2>1. CASE UNCHANGED appMutation
    BY <1>1, <2>1 DEF AppTypes
  <2>2. CASE \E S, status : status \in {"undone", "applied"} /\ SetMutations(S, status)
    BY <1>1, <2>2, MutationsMarked
  <2> QED
    BY <2>1, <2>2 DEF RefuseSchema, QueueBuild, UndoRecords, MarkAfterFailure, AppEditDies
<1>3. CASE EditEnds(e)
  BY <1>1, <1>2, <1>3, EditRests DEF EditEnds
<1>4. CASE EditGoesTo(e, "queued") /\ UNCHANGED <<appMutation, appFaults>>
  BY <1>1, <1>4, EditGoesOn DEF EditStep
<1>5. CASE appEdit' = [appEdit EXCEPT ![e] = IdleEdit]
  <2>1. IdleEdit = [IdleEdit EXCEPT !.pc = "idle"]
    BY DEF IdleEdit
  <2> QED
    BY <1>1, <1>2, <1>5, <2>1, EditRests
<1> QED
  BY <1>3, <1>4, <1>5 DEF RefuseSchema, QueueBuild, UndoRecords, MarkAfterFailure, AppEditDies

LEMMA AppNextServed == ServedInv /\ [AppNext]_appVars => ServedInv'
<1> SUFFICES ASSUME ServedInv, [AppNext]_appVars PROVE ServedInv'
  OBVIOUS
<1>1. CASE UNCHANGED appVars
  BY <1>1 DEF appVars, ServedInv, AppTypes, EditFits, MutationFits, Served
<1>2. ASSUME NEW w \in Builders, BuildStep(w) \/ BuilderDies(w) PROVE ServedInv'
  BY <1>2, StartBuildServed, BuildGoesOnServed, BuilderDiesServed DEF BuildStep
<1>3. ASSUME NEW e \in AppEdits, AppEditStep(e) PROVE ServedInv'
  BY <1>3, LoadAppServed, ApplySchemaServed, LoadForAppUndoServed, UndoRestoresServed,
     EditEndsServed DEF AppEditStep
<1>4. ASSUME NEW e \in AppEdits, QueueFails(e) \/ AppEditDies(e) PROVE ServedInv'
  BY <1>4, QueueFailsServed, EditEndsServed
<1> QED
  BY <1>1, <1>2, <1>3, <1>4 DEF AppNext

\* A build is due, or will be queued.
Waiting == buildJobs > 0 \/ \E e \in AppEdits : appEdit[e].pc \in {"applied", "restored"}

\* A build that will serve the present schema, or fail.
BuildFits(w) ==
    \/ build[w].pc = "marked" /\ build[w].schema = app.schema
    \/ build[w].pc = "generated" /\ workDir = app.schema
    \/ build[w].pc = "bundled" /\ bundle = app.schema
    \/ build[w].pc = "broken"

AppIsBuilt ==
    /\ \A w \in Builders : ~Building(w)
    /\ app.status \in {"ready", "failed"} /\ (app.status = "ready" => bundle = app.schema)

\* Builds do not meet and nothing is lost: once no build is due any more, the one at
\* work, or the last, is of the present schema.
BuildsFit ==
    ~buildsMet /\ appFaults = 0 =>
        /\ \A v, w \in Builders : Building(v) /\ Building(w) => v = w
        /\ Waiting \/ AppIsBuilt \/ \E w \in Builders : BuildFits(w)

LEMMA BuildStepFits ==
    ASSUME ServedInv, BuildsFit, NEW w \in Builders, BuildStep(w), ~buildsMet', appFaults' = 0
    PROVE  BuildsFit'
<1>1. /\ app \in AppRow /\ build \in [Builders -> BuildState] /\ buildJobs \in Nat
      /\ UNCHANGED <<appEdit, appFaults>>
  BY DEF ServedInv, AppTypes, BuildStep, StartBuild, Generate, Bundle, Persist
<1>2. ~buildsMet /\ appFaults = 0
  <2>1. buildsMet' = buildsMet \/ buildsMet' = (buildsMet \/ \E v \in Builders : Building(v))
    BY DEF BuildStep, StartBuild, Generate, Bundle, Persist
  <2>2. ~buildsMet
    BY <2>1
  <2> QED
    BY <1>1, <2>2
<1>3. /\ \A u, v \in Builders : Building(u) /\ Building(v) => u = v
      /\ Waiting \/ AppIsBuilt \/ \E v \in Builders : BuildFits(v)
  BY <1>2 DEF BuildsFit
<1>4. \A v \in Builders \ {w} : ~Building(v) /\ build'[v] = build[v]
  <2>1. CASE StartBuild(w)
    BY <1>1, <2>1 DEF StartBuild
  <2>2. CASE Generate(w) \/ Bundle(w) \/ Persist(w)
    <3>1. Building(w)
      BY <2>2 DEF Generate, Bundle, Persist, Building
    <3>2. \A v \in Builders \ {w} : build'[v] = build[v]
      BY <1>1, <2>2 DEF Generate, Bundle, Persist
    <3> QED
      BY <1>3, <3>1, <3>2
  <2> QED
    BY <2>1, <2>2 DEF BuildStep
<1>5. \A u, v \in Builders : Building(u)' /\ Building(v)' => u = v
  BY <1>4 DEF Building
<1>6. \A v \in Builders : BuildFits(v) => v = w
  BY <1>4 DEF BuildFits, Building
<1>7. (Waiting \/ AppIsBuilt \/ \E v \in Builders : BuildFits(v))'
  <2>1. CASE StartBuild(w)
    <3>1. build'[w].pc = "marked" /\ build'[w].schema = app.schema /\ app'.schema = app.schema
      BY <1>1, <2>1 DEF StartBuild, AppRow
    <3> QED
      BY <3>1 DEF BuildFits
  <2>2. CASE ~StartBuild(w) /\ Waiting
    <3>1. buildJobs' = buildJobs
      BY <2>2 DEF BuildStep, Generate, Bundle, Persist
    <3> QED
      BY <1>1, <2>2, <3>1 DEF Waiting
  <2>3. CASE ~StartBuild(w) /\ ~Waiting
    <3>0. Building(w)
      BY <2>3 DEF BuildStep, Generate, Bundle, Persist, Building
    <3>1. CASE Generate(w)
      <4>1. build[w].pc = "marked" /\ app' = app
        BY <3>1 DEF Generate
      <4>2. CASE build' = [build EXCEPT ![w] = [IdleBuild EXCEPT !.pc = "broken"]]
        <5>1. build'[w].pc = "broken"
          BY <1>1, <4>2, AppRowsOfOld DEF BuildState
        <5> QED
          BY <5>1 DEF BuildFits
      <4>3. CASE /\ build' = [build EXCEPT ![w] = [IdleBuild EXCEPT !.pc = "generated"]]
                 /\ workDir' = build[w].schema /\ UNCHANGED bundle
        <5>1. build'[w].pc = "generated"
          BY <1>1, <4>3, AppRowsOfOld DEF BuildState
        <5>2. build[w].schema = app.schema
          BY <1>3, <1>6, <2>3, <3>0, <4>1 DEF BuildFits, AppIsBuilt
        <5> QED
          BY <4>1, <4>3, <5>1, <5>2 DEF BuildFits
      <4> QED
        BY <3>1, <4>2, <4>3 DEF Generate
    <3>2. CASE Bundle(w)
      <4>1. build[w].pc = "generated" /\ app' = app
        BY <3>2 DEF Bundle
      <4>2. CASE build' = [build EXCEPT ![w].pc = "broken"]
        <5>1. build'[w].pc = "broken"
          BY <1>1, <4>2 DEF BuildState
        <5> QED
          BY <5>1 DEF BuildFits
      <4>3. CASE build' = [build EXCEPT ![w].pc = "bundled"] /\ bundle' = workDir
        <5>1. build'[w].pc = "bundled"
          BY <1>1, <4>3 DEF BuildState
        <5>2. workDir = app.schema
          BY <1>3, <1>6, <2>3, <3>0, <4>1 DEF BuildFits, AppIsBuilt
        <5> QED
          BY <4>1, <4>3, <5>1, <5>2 DEF BuildFits
      <4> QED
        BY <3>2, <4>2, <4>3 DEF Bundle
    <3>3. CASE Persist(w)
      <4>1. /\ build[w].pc \in {"bundled", "broken"} /\ bundle' = bundle
            /\ app'.schema = app.schema
            /\ app'.status = IF build[w].pc = "bundled" THEN "ready" ELSE "failed"
        BY <1>1, <3>3 DEF Persist, AppRow
      <4>2. \A v \in Builders : ~Building(v)'
        <5>1. build'[w].pc = "idle"
          BY <1>1, <3>3, AppRowsOfOld DEF Persist
        <5> QED
          BY <1>4, <5>1 DEF Building
      <4>3. BuildFits(w)
        BY <1>3, <1>6, <2>3, <3>0 DEF AppIsBuilt
      <4>4. build[w].pc = "bundled" => bundle = app.schema
        BY <4>3 DEF BuildFits
      <4> QED
        BY <4>1, <4>2, <4>4 DEF AppIsBuilt
    <3> QED
      BY <2>3, <3>1, <3>2, <3>3 DEF BuildStep
  <2> QED
    BY <2>1, <2>2, <2>3
<1> QED
  BY <1>5, <1>7 DEF BuildsFit

LEMMA AppEditFits ==
    ASSUME ServedInv, BuildsFit, NEW e \in AppEdits, AppEditStep(e)
    PROVE  BuildsFit'
<1>1. /\ appEdit \in [AppEdits -> EditState] /\ buildJobs \in Nat
      /\ UNCHANGED <<bundle, workDir, build, buildsMet, appFaults>>
  BY DEF ServedInv, AppTypes, AppEditStep, LoadApp, ApplySchema, RefuseSchema,
         LoadForAppUndo, UndoRestores, Restore, QueueBuild, UndoRecords, MarkAfterFailure
<1> SUFFICES ASSUME ~buildsMet, appFaults = 0
             PROVE  (Waiting \/ AppIsBuilt \/ \E w \in Builders : BuildFits(w))'
  BY <1>1 DEF BuildsFit, Building
<1>2. Waiting \/ AppIsBuilt \/ \E w \in Builders : BuildFits(w)
  BY DEF BuildsFit
<1>3. CASE (\E s \in Schemas : ApplySchema(e, s)) \/ UndoRestores(e)
  <2>1. appEdit'[e].pc \in {"applied", "restored"}
    BY <1>1, <1>3 DEF ApplySchema, UndoRestores, Restore, EditState
  <2> QED
    BY <2>1 DEF Waiting
<1>4. CASE QueueBuild(e)
  <2>1. buildJobs' = buildJobs + 1
    BY <1>4 DEF QueueBuild
  <2> QED
    BY <1>1, <2>1 DEF Waiting
<1>5. CASE \/ LoadApp(e) \/ RefuseSchema(e) \/ \E c \in AppChats : LoadForAppUndo(e, c)
           \/ UndoRecords(e) \/ MarkAfterFailure(e)
  <2>1. UNCHANGED <<app, buildJobs>>
    BY <1>5 DEF LoadApp, RefuseSchema, LoadForAppUndo, UndoRecords, MarkAfterFailure
  <2>2. \A f \in AppEdits \ {e} : appEdit'[f] = appEdit[f]
    BY <1>1, <1>5 DEF LoadApp, RefuseSchema, LoadForAppUndo, UndoRecords, MarkAfterFailure,
                      EditEnds
  <2>3. appEdit[e].pc \notin {"applied", "restored"}
    BY <1>5 DEF LoadApp, RefuseSchema, LoadForAppUndo, UndoRecords, MarkAfterFailure
  <2>4. Waiting => Waiting'
    BY <2>1, <2>2, <2>3 DEF Waiting
  <2> QED
    BY <1>1, <1>2, <2>1, <2>4 DEF AppIsBuilt, BuildFits, Building
<1> QED
  BY <1>3, <1>4, <1>5 DEF AppEditStep

LEMMA BuildsFitNext == ServedInv /\ BuildsFit /\ [AppNext]_appVars => BuildsFit'
<1> SUFFICES ASSUME ServedInv, BuildsFit, [AppNext]_appVars PROVE BuildsFit'
  OBVIOUS
<1>1. CASE UNCHANGED appVars
  BY <1>1 DEF appVars, BuildsFit, Building, Waiting, AppIsBuilt, BuildFits
<1>2. ASSUME NEW w \in Builders, BuildStep(w) PROVE BuildsFit'
  <2>1. CASE ~buildsMet' /\ appFaults' = 0
    BY <1>2, <2>1, BuildStepFits
  <2>2. CASE ~(~buildsMet' /\ appFaults' = 0)
    BY <2>2 DEF BuildsFit
  <2> QED
    BY <2>1, <2>2
<1>3. ASSUME NEW e \in AppEdits, AppEditStep(e) PROVE BuildsFit'
  BY <1>3, AppEditFits
<1>4. CASE \/ \E w \in Builders : BuilderDies(w)
           \/ \E e \in AppEdits : QueueFails(e) \/ AppEditDies(e)
  <2>1. appFaults' = appFaults + 1 /\ appFaults \in Nat
    BY <1>4 DEF BuilderDies, QueueFails, AppEditDies, ServedInv, AppTypes
  <2> QED
    BY <2>1 DEF BuildsFit
<1> QED
  BY <1>1, <1>2, <1>3, <1>4 DEF AppNext

(* An app that says it is ready has a bundle; at rest it is built, unless     *)
(* builds met or something was lost (_set_status, enqueue of the build).      *)
THEOREM ReadyAppsAreServed == AppSpec => []ReadyIsServed
<1>1. AppInit => ServedInv /\ BuildsFit
  <2> SUFFICES ASSUME AppInit PROVE BuildsFit
    BY AppInitHolds
  <2>1. buildJobs = 1 /\ \A w \in Builders : build[w].pc = "idle"
    BY AppRowsOfOld DEF AppInit
  <2> QED
    BY <2>1 DEF BuildsFit, Building, Waiting
<1>2. ServedInv /\ BuildsFit => ReadyIsServed
  <2> SUFFICES ASSUME ServedInv, BuildsFit PROVE ReadyIsServed
    OBVIOUS
  <2>1. app.status = "ready" => bundle # NoBundle
    BY DEF ServedInv, Served
  <2>2. ASSUME AppAtRest, ~buildsMet, appFaults = 0 PROVE AppIsBuilt
    <3>1. ~Waiting
      BY <2>2 DEF AppAtRest, Waiting
    <3>2. \A w \in Builders : ~BuildFits(w)
      BY <2>2 DEF AppAtRest, BuildFits, Building
    <3> QED
      BY <2>2, <3>1, <3>2 DEF BuildsFit
  <2> QED
    BY <2>1, <2>2 DEF ReadyIsServed, AppIsBuilt
<1> QED
  BY <1>1, <1>2, AppNextServed, BuildsFitNext, PTL DEF AppSpec

(* An undo nobody wrote within puts back the schema its message wrote over:   *)
(* the time a row was loaded with names its schema (undo_mutation).           *)
THEOREM AppUndoTakesBack == AppSpec => AppUndoTakesBackItsEdit
<1>1. ServedInv /\ [AppNext]_appVars
        => [\A e \in AppUndos : LET undone == appEdit[e].undoes
              IN  (/\ appEdit[e].pc = "undoing" /\ appEdit'[e].pc = "restored"
                   /\ app.updated = undone.version /\ undone.alone)
                     => app'.schema = undone.replaced]_appVars
  <2> SUFFICES ASSUME ServedInv, AppNext, NEW e \in AppUndos, appEdit[e].pc = "undoing",
                      appEdit'[e].pc = "restored", app.updated = appEdit[e].undoes.version,
                      appEdit[e].undoes.alone
               PROVE  app'.schema = appEdit[e].undoes.replaced
    OBVIOUS
  <2>1. /\ e \in AppEdits /\ appEdit \in [AppEdits -> EditState] /\ EditFits(e)
        /\ appEdit[e] \in EditState
    BY DEF ServedInv, AppTypes, AppEdits
  <2>2. UndoRestores(e)
    <3>1. PICK f \in AppEdits : AppEditStep(f) \/ QueueFails(f) \/ AppEditDies(f)
      BY DEF AppNext, BuildStep, StartBuild, Generate, Bundle, Persist, BuilderDies
    <3>2. f = e
      <4>1. \A g \in AppEdits \ {f} : appEdit'[g] = appEdit[g]
        BY <2>1, <3>1 DEF AppEditStep, LoadApp, ApplySchema, RefuseSchema, LoadForAppUndo,
             UndoRestores, Restore, QueueBuild, UndoRecords, MarkAfterFailure, QueueFails,
             AppEditDies, EditEnds, EditGoesTo
      <4> QED
        BY <2>1, <4>1
    <3>3. ~AppEditDies(e)
      <4>1. AppEditDies(e) => appEdit'[e].pc \in {"ended", "idle"}
        BY <2>1, AppRowsOfOld DEF AppEditDies, EditEnds, EditState
      <4> QED
        BY <4>1
    <3> QED
      BY <3>1, <3>2, <3>3 DEF AppEditStep, LoadApp, ApplySchema, RefuseSchema, LoadForAppUndo,
           QueueBuild, UndoRecords, MarkAfterFailure, QueueFails
  <2>3. /\ appEdit[e].undoes.before \in AppRow /\ Served(appEdit[e].undoes.before)
        /\ CommitApp(appEdit[e].known, appEdit[e].undoes.before)
    BY <2>1, <2>2 DEF UndoRestores, Restore, EditFits, EditState, MutationState
  <2>4. app'.schema = IF appEdit[e].undoes.before.schema # appEdit[e].known.schema
                      THEN appEdit[e].undoes.before.schema ELSE app.schema
    BY <2>1, <2>3, CommittedRow
  <2>5. /\ appEdit[e].known.schema = app.schema
        /\ appEdit[e].undoes.before.schema = appEdit[e].undoes.replaced
    BY <2>1 DEF EditFits
  <2> QED
    BY <2>4, <2>5
<1> QED
  BY <1>1, AppInitHolds, AppNextServed, PTL DEF AppSpec, AppUndoTakesBackItsEdit

(* Rows, bundles and what builders and edits know of them have their types,   *)
(* and no row is newer than the clock (_set_status, MiniApp).                 *)
THEOREM AppTypesHold == AppSpec => []AppTypeOK
<1>1. ServedInv => AppTypeOK
  BY DEF ServedInv, AppTypes, AppTypeOK, BuildState, EditState, MutationState
<1> QED
  BY <1>1, AppInitHolds, AppNextServed, PTL DEF AppSpec

(***************************************************************************)
(* The lock order, and the two editors in one run.                         *)
(***************************************************************************)
LEMMA Removal ==
    ASSUME NEW S, NEW s \in Seq(S), NEW i \in 1..Len(s)
    PROVE  /\ RemoveAt(s, i) \in Seq(S)
           /\ Len(RemoveAt(s, i)) = Len(s) - 1
           /\ \A j \in 1..(Len(s) - 1) : RemoveAt(s, i)[j] = IF j < i THEN s[j] ELSE s[j + 1]
<1> DEFINE before == SubSeq(s, 1, i - 1)
           after == SubSeq(s, i + 1, Len(s))
<1>0. Len(s) \in Nat /\ \A j \in 1..Len(s) : s[j] \in S
  BY LenProperties, ElementOfSeq
<1>1. /\ before \in Seq(S) /\ Len(before) = i - 1
      /\ \A j \in 1..(i - 1) : before[j] = s[j]
  <2>1. \A j \in 1..(i - 1) : s[j] \in S
    BY <1>0
  <2>2. i - 1 \in Int /\ 1 \in Int
    BY <1>0
  <2>3. /\ before \in Seq(S)
        /\ Len(before) = IF 1 <= i - 1 THEN (i - 1) - 1 + 1 ELSE 0
        /\ \A j \in 1..((i - 1) - 1 + 1) : before[j] = s[1 + j - 1]
    BY <2>1, <2>2, SubSeqProperties
  <2> HIDE DEF before
  <2> QED
    BY <1>0, <2>3
<1>2. /\ after \in Seq(S) /\ Len(after) = Len(s) - i
      /\ \A j \in 1..(Len(s) - i) : after[j] = s[i + j]
  <2>1. \A j \in (i + 1)..Len(s) : s[j] \in S
    BY <1>0
  <2>2. i + 1 \in Int /\ Len(s) \in Int
    BY <1>0
  <2>3. /\ after \in Seq(S)
        /\ Len(after) = IF i + 1 <= Len(s) THEN Len(s) - (i + 1) + 1 ELSE 0
        /\ \A j \in 1..(Len(s) - (i + 1) + 1) : after[j] = s[(i + 1) + j - 1]
    BY <2>1, <2>2, SubSeqProperties
  <2> HIDE DEF after
  <2> QED
    BY <1>0, <2>3
<1>3. RemoveAt(s, i) = before \o after
  BY DEF RemoveAt
<1> HIDE DEF before, after
<1>4. /\ before \o after \in Seq(S)
      /\ Len(before \o after) = Len(before) + Len(after)
      /\ \A j \in 1..(Len(before) + Len(after)) :
            (before \o after)[j] = IF j <= Len(before) THEN before[j] ELSE after[j - Len(before)]
  BY <1>1, <1>2, ConcatProperties
<1>5. ASSUME NEW j \in 1..(Len(s) - 1)
      PROVE  RemoveAt(s, i)[j] = IF j < i THEN s[j] ELSE s[j + 1]
  <2>1. RemoveAt(s, i)[j] = IF j <= i - 1 THEN before[j] ELSE after[j - (i - 1)]
    BY <1>0, <1>1, <1>2, <1>3, <1>4
  <2>2. CASE j < i
    BY <1>0, <1>1, <2>1, <2>2
  <2>3. CASE ~(j < i)
    <3>1. j - (i - 1) \in 1..(Len(s) - i) /\ i + (j - (i - 1)) = j + 1
      BY <1>0, <2>3
    <3> QED
      BY <1>0, <1>2, <2>1, <2>3, <3>1
  <2> QED
    BY <2>2, <2>3
<1> QED
  BY <1>0, <1>1, <1>2, <1>3, <1>4, <1>5

\* The requests between their DELETEs and their end, each once.
LocksFit ==
    /\ locks \in Seq(Edits)
    /\ \A i, j \in DOMAIN locks : locks[i] = locks[j] => i = j
    /\ \A e \in Edits : edit[e].pc = "wiped" <=> \E i \in DOMAIN locks : locks[i] = e

LEMMA LockTaken ==
    ASSUME LocksFit, NEW e \in Edits, edit[e].pc # "wiped", edit'[e].pc = "wiped",
           \A f \in Edits \ {e} : edit'[f] = edit[f], locks' = Append(locks, e)
    PROVE  LocksFit'
<1>1. /\ locks' \in Seq(Edits) /\ Len(locks') = Len(locks) + 1
      /\ \A i \in 1..Len(locks) : locks'[i] = locks[i]
      /\ locks'[Len(locks) + 1] = e
      /\ DOMAIN locks = 1..Len(locks) /\ DOMAIN locks' = 1..Len(locks') /\ Len(locks) \in Nat
  BY AppendProperties, LenProperties DEF LocksFit
<1>2. \A i \in DOMAIN locks : locks[i] # e
  BY DEF LocksFit
<1>3. \A i, j \in DOMAIN locks' : locks'[i] = locks'[j] => i = j
  BY <1>1, <1>2 DEF LocksFit
<1>4. ASSUME NEW f \in Edits
      PROVE  edit'[f].pc = "wiped" <=> \E i \in DOMAIN locks' : locks'[i] = f
  <2>1. CASE f = e
    BY <1>1, <2>1
  <2>2. CASE f # e
    <3>1. (\E i \in DOMAIN locks' : locks'[i] = f) <=> \E i \in DOMAIN locks : locks[i] = f
      BY <1>1, <2>2
    <3> QED
      BY <2>2, <3>1 DEF LocksFit
  <2> QED
    BY <2>1, <2>2
<1> QED
  BY <1>1, <1>3, <1>4 DEF LocksFit

LEMMA LockLeft ==
    ASSUME LocksFit, NEW e \in Edits, edit'[e].pc # "wiped",
           \A f \in Edits \ {e} : edit'[f] = edit[f], locks' = Unlocked(e)
    PROVE  LocksFit'
<1>1. locks \in Seq(Edits) /\ DOMAIN locks = 1..Len(locks) /\ Len(locks) \in Nat
  BY LenProperties DEF LocksFit
<1>2. CASE e \notin ToSet(locks)
  <2>1. locks' = locks
    BY <1>2 DEF Unlocked
  <2>2. \A i \in DOMAIN locks : locks[i] # e
    BY <1>2 DEF ToSet
  <2> QED
    BY <2>1, <2>2 DEF LocksFit
<1>3. CASE e \in ToSet(locks)
  <2> DEFINE k == CHOOSE i \in DOMAIN locks : locks[i] = e
  <2>1. k \in DOMAIN locks /\ locks[k] = e
    BY <1>3 DEF ToSet
  <2>2. locks' = RemoveAt(locks, k)
    BY <1>3 DEF Unlocked
  <2> HIDE DEF k
  <2>3. /\ locks' \in Seq(Edits) /\ Len(locks') = Len(locks) - 1
        /\ \A j \in 1..(Len(locks) - 1) : locks'[j] = IF j < k THEN locks[j] ELSE locks[j + 1]
    <3>1. k \in 1..Len(locks)
      BY <1>1, <2>1
    <3>2. /\ RemoveAt(locks, k) \in Seq(Edits) /\ Len(RemoveAt(locks, k)) = Len(locks) - 1
          /\ \A j \in 1..(Len(locks) - 1) :
                RemoveAt(locks, k)[j] = IF j < k THEN locks[j] ELSE locks[j + 1]
      BY <1>1, <3>1, Removal, Zenon
    <3> QED
      BY <2>2, <3>2
  <2>4. DOMAIN locks' = 1..(Len(locks) - 1)
    BY <2>3, LenProperties
  <2>5. ASSUME NEW i \in DOMAIN locks', NEW j \in DOMAIN locks', locks'[i] = locks'[j]
        PROVE  i = j
    <3> DEFINE was(n) == IF n < k THEN n ELSE n + 1
    <3>1. /\ i \in Nat /\ j \in Nat /\ k \in Nat
          /\ was(i) \in DOMAIN locks /\ was(j) \in DOMAIN locks
      BY <1>1, <2>1, <2>4
    <3>2. locks[was(i)] = locks[was(j)]
      BY <2>3, <2>4, <2>5
    <3>3. was(i) = was(j)
      BY <3>1, <3>2 DEF LocksFit
    <3> QED
      BY <3>1, <3>3
  <2>6. \A j \in DOMAIN locks' : locks'[j] # e
    BY <1>1, <2>1, <2>3, <2>4 DEF LocksFit
  <2>7. ASSUME NEW f \in Edits \ {e}
        PROVE  (\E j \in DOMAIN locks' : locks'[j] = f) <=> \E i \in DOMAIN locks : locks[i] = f
    <3>1. ASSUME NEW j \in DOMAIN locks', locks'[j] = f PROVE \E i \in DOMAIN locks : locks[i] = f
      BY <1>1, <2>1, <2>3, <2>4, <3>1
    <3>2. ASSUME NEW i \in DOMAIN locks, locks[i] = f PROVE \E j \in DOMAIN locks' : locks'[j] = f
      <4>1. i # k
        BY <2>1, <3>2
      <4>2. CASE i < k
        BY <1>1, <2>1, <2>3, <2>4, <3>2, <4>2
      <4>3. CASE i > k
        <5>1. i - 1 \in DOMAIN locks' /\ ~(i - 1 < k) /\ (i - 1) + 1 = i
          BY <1>1, <2>1, <2>4, <4>3
        <5> QED
          BY <2>3, <2>4, <3>2, <5>1
      <4> QED
        BY <1>1, <2>1, <4>1, <4>2, <4>3
    <3> QED
      BY <3>1, <3>2
  <2>8. ASSUME NEW f \in Edits
        PROVE  edit'[f].pc = "wiped" <=> \E j \in DOMAIN locks' : locks'[j] = f
    BY <2>6, <2>7 DEF LocksFit
  <2> QED
    BY <2>3, <2>5, <2>8 DEF LocksFit
<1> QED
  BY <1>2, <1>3

LEMMA LocksNext ==
    ASSUME AuthoringInv, LocksFit, [AuthoringNext]_authoringVars
    PROVE  LocksFit'
<1>0. edit \in [Edits -> Rewrite]
  BY DEF AuthoringInv, AuthoringTypes
<1>1. CASE UNCHANGED <<edit, locks>>
  BY <1>1 DEF LocksFit
<1>2. ASSUME NEW e \in Edits, NEW new, UNCHANGED locks, edit' = [edit EXCEPT ![e] = new],
             edit[e].pc # "wiped", new.pc # "wiped"
      PROVE  LocksFit'
  BY <1>0, <1>2 DEF LocksFit
<1>3. ASSUME NEW e \in Edits, Wipe(e) PROVE LocksFit'
  <2>1. /\ edit'[e].pc = "wiped" /\ edit[e].pc # "wiped"
        /\ \A f \in Edits \ {e} : edit'[f] = edit[f]
        /\ locks' = Append(locks, e)
    BY <1>0, <1>3 DEF Wipe, Rewrite
  <2> QED
    BY <2>1, LockTaken
<1>4. ASSUME NEW e \in Edits, Insert(e) PROVE LocksFit'
  <2>1. \E pc \in {"failed", "ended", "committed"} : Becomes(e, pc)
    BY <1>4 DEF Insert
  <2>2. edit'[e].pc # "wiped" /\ \A f \in Edits \ {e} : edit'[f] = edit[f]
    BY <1>0, <2>1 DEF Becomes, Rewrite
  <2>3. locks' = Unlocked(e)
    BY <1>4 DEF Insert
  <2> QED
    BY <2>2, <2>3, LockLeft
<1>5. ASSUME NEW e \in Edits, EditDies(e) PROVE LocksFit'
  <2>1. Becomes(e, "failed") \/ edit' = [edit EXCEPT ![e] = FreshEdit]
    BY <1>5 DEF EditDies
  <2>2. edit'[e].pc # "wiped" /\ \A f \in Edits \ {e} : edit'[f] = edit[f]
    BY <1>0, <2>1 DEF Becomes, Rewrite, FreshEdit
  <2>3. locks' = Unlocked(e)
    BY <1>5 DEF EditDies
  <2> QED
    BY <2>2, <2>3, LockLeft
<1>6. ASSUME NEW e \in Edits, NEW pc \in EditPc, pc # "wiped", edit[e].pc # "wiped",
             UNCHANGED locks, edit'[e].pc = pc, \A f \in Edits \ {e} : edit'[f] = edit[f]
      PROVE  LocksFit'
  BY <1>6 DEF LocksFit
<1>7. ASSUME NEW e \in Edits,
             \/ LoadForPut(e) \/ LoadForPatch(e) \/ LoadForChat(e)
             \/ \E c \in Chats : LoadForUndo(e, c)
      PROVE  LocksFit'
  <2>1. ASSUME LoadForPut(e)
        PROVE  /\ edit'[e].pc = "drafted" /\ \A f \in Edits \ {e} : edit'[f] = edit[f]
               /\ edit[e].pc = "idle" /\ UNCHANGED locks
    <3>1. PICK g \in Drafts :
            edit' = [edit EXCEPT ![e].pc = "drafted", ![e].seen = version, ![e].draft = g]
      BY <2>1 DEF LoadForPut
    <3> QED
      BY <1>0, <2>1, <3>1 DEF LoadForPut, Rewrite
  <2>2. ASSUME LoadForPatch(e) \/ LoadForChat(e)
        PROVE  /\ edit'[e].pc \in {"named", "reading"}
               /\ \A f \in Edits \ {e} : edit'[f] = edit[f]
               /\ edit[e].pc = "idle" /\ UNCHANGED locks
    BY <1>0, <2>2 DEF LoadForPatch, LoadForChat, Rewrite
  <2>3. ASSUME NEW c \in Chats, LoadForUndo(e, c)
        PROVE  /\ edit'[e].pc \in {"drafted", "failed"}
               /\ \A f \in Edits \ {e} : edit'[f] = edit[f]
               /\ edit[e].pc = "idle" /\ UNCHANGED locks
    <3>1. \/ edit' = [edit EXCEPT ![e].pc = "drafted", ![e].seen = version,
                                 ![e].draft = mutation[c].before, ![e].of = {c}]
          \/ edit' = [edit EXCEPT ![e].pc = "failed"]
      BY <2>3 DEF LoadForUndo, Becomes
    <3>2. edit[e].pc = "idle" /\ UNCHANGED locks
      BY <2>3 DEF LoadForUndo
    <3> QED
      BY <1>0, <3>1, <3>2 DEF Rewrite
  <2> QED
    BY <1>6, <1>7, <2>1, <2>2, <2>3 DEF EditPc
<1>8. ASSUME NEW e \in Edits, ReadEdges(e) \/ ModelAnswers(e) \/ Patch(e) \/ Record(e)
      PROVE  LocksFit'
  <2>1. \E pc \in {"asking", "drafted", "failed", "ended"} :
          edit'[e].pc = pc /\ \A f \in Edits \ {e} : edit'[f] = edit[f]
    BY <1>0, <1>8 DEF ReadEdges, ModelAnswers, Patch, Record, Becomes, Rewrite
  <2>2. edit[e].pc \in {"reading", "asking", "named", "committed"} /\ UNCHANGED locks
    BY <1>8 DEF ReadEdges, ModelAnswers, Patch, Record
  <2> QED
    BY <1>6, <2>1, <2>2 DEF EditPc
<1>9. CASE ReadNodeRows \/ ReadEdgeRows \/ UNCHANGED authoringVars
  BY <1>1, <1>9 DEF ReadNodeRows, ReadEdgeRows, authoringVars
<1> QED
  BY <1>3, <1>4, <1>5, <1>7, <1>8, <1>9 DEF AuthoringNext, RewriteStep

\* Versions, graphs and mutations keep their types, and the requests that hold row
\* locks are those between their DELETEs and their end.
THEOREM AuthoringTypesHold == AuthoringSpec => []AuthoringTypeOK
<1>1. AuthoringInit => LocksFit
  BY DEF AuthoringInit, LocksFit, FreshEdit
<1>2. AuthoringInv /\ LocksFit /\ ReferencesHold => AuthoringTypeOK
  <2> SUFFICES ASSUME AuthoringInv, LocksFit, ReferencesHold PROVE AuthoringTypeOK
    OBVIOUS
  <2>0. AuthoringTypes
    BY DEF AuthoringInv
  <2>1. version \in 1..(Len(history) + 1)
    BY <2>0, LenProperties DEF AuthoringTypes
  <2>2. history \in Seq(Graph)
    <3>1. Proper \subseteq Graph
      BY DEF Proper
    <3> QED
      BY <2>0, <3>1, SeqMonotonic DEF AuthoringTypes
  <2>3. \A c \in Chats : /\ mutation[c].status \in {"none", "applied", "undone"}
                         /\ {mutation[c].before, mutation[c].after} \subseteq Graph
    BY <2>0 DEF AuthoringTypes, Mutation, Proper
  <2>4. ToSet(locks) = {e \in Edits : edit[e].pc = "wiped"}
    <3>1. \A i \in DOMAIN locks : locks[i] \in Edits
      BY LenProperties, ElementOfSeq DEF LocksFit
    <3> QED
      BY <3>1 DEF LocksFit, ToSet
  <2> QED
    BY <2>1, <2>2, <2>3, <2>4 DEF AuthoringTypeOK
<1> QED
  BY <1>1, <1>2, LocksNext, AuthoringSpecHolds, AuthoredReferencesHold, PTL DEF AuthoringSpec

\* Each editor takes no steps in the run of the two but its own.
LEMMA EachEditorIsItself == Spec => AuthoringSpec /\ AppSpec
<1>1. Init => AuthoringInit /\ AppInit
  BY DEF Init
<1>2. [Next]_<<authoringVars, appVars, focus>> => [AuthoringNext]_authoringVars /\ [AppNext]_appVars
  BY DEF Next, GraphStep, AppStep
<1> QED
  BY <1>1, <1>2, PTL DEF Spec, AuthoringSpec, AppSpec

\* In the run of the two editors, for any number of requests and drafts, the rows and
\* what each request knows keep their types; so do the other theorems hold there.
THEOREM EditingTypesHold == Spec => []EditingTypeOK
<1>1. AuthoringTypeOK /\ AppTypeOK => EditingTypeOK
  BY DEF EditingTypeOK
<1> QED
  BY <1>1, EachEditorIsItself, AuthoringTypesHold, AppTypesHold, PTL
================================================================================
