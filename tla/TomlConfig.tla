----------------------------- MODULE TomlConfig -----------------------------
(***************************************************************************)
(* config/TomlConfig.{h,cc}: the configuration, the nodes it hands out and *)
(* the cache m_nodes of weak pointers to them.                             *)
(*                                                                         *)
(* A node keeps the value it was created with.  It lives while somebody    *)
(* holds a shared_ptr to it; the entry of m_nodes is Expired after that.   *)
(* TomlNode::Subscribe and Notify are left out: nothing calls Notify, and  *)
(* SettingsFollowReload of Startup says what comes of that.                *)
(* Startup composes this module's actions with the rest of the program.    *)
(***************************************************************************)
EXTENDS TomlValue

CONSTANTS
    Path,      \* the ConfigPaths that nodes are asked for
    NodeId,    \* bound: the TomlNode objects that are alive at a time
    NoNode,    \* a null shared_ptr<TomlNode>
    Expired    \* a weak_ptr whose node is gone

ASSUME NodeAssumption ==
    /\ Path \subseteq Seq(Key)
    /\ {NoNode, Expired} \cap NodeId = {}

VARIABLES
    m_root,     \* TomlConfig::m_root
    m_nodes,    \* TomlConfig::m_nodes
    nodes,      \* the path and the value of each node, Dead when not alive
    pinned      \* history: the nodes alive now that were there before m_root

configVars == <<m_root, m_nodes, nodes, pinned>>

\* What a node that is not alive has for a path and a value.
Dead == [path |-> Null, value |-> Null]

Alive == {id \in NodeId : nodes[id] # Dead}

ConfigTypeOK ==
    /\ DOMAIN m_root \subseteq Seq(Key)
    /\ DOMAIN m_nodes \subseteq Path
    /\ \A p \in DOMAIN m_nodes : m_nodes[p] \in Alive \cup {Expired}
    /\ DOMAIN nodes = NodeId
    /\ \A id \in Alive : nodes[id].path \in Path /\ nodes[id].value # Null
    /\ pinned \subseteq Alive

ConfigInit ==
    /\ m_root = Null
    /\ m_nodes = <<>>
    /\ nodes = [id \in NodeId |-> Dead]
    /\ pinned = {}

\* Mutant of Reload: m_root is reset before the source is read.
ReloadResetsFirst(table, ok) ==
    /\ m_root' = IF ok THEN Create(table) ELSE Null
    /\ pinned' = IF ok THEN Alive ELSE pinned
    /\ UNCHANGED <<m_nodes, nodes>>

\* Reload: ok says whether the source could be read and its text parsed, and
\* table is then what was parsed.  The nodes and m_nodes are left alone.
Reload(table, ok) ==
    /\ m_root' = IF ok THEN Create(table) ELSE m_root
    /\ pinned' = IF ok THEN Alive ELSE pinned
    /\ UNCHANGED <<m_nodes, nodes>>

\* m_nodes.find(path) finds a node that is still alive.
Cached(p) == p \in DOMAIN m_nodes /\ m_nodes[p] # Expired

\* Mutant of GetNode: the entry is emplaced, and an expired one not erased.
GetNodeEmplaces(p, id) ==
    \/ /\ Cached(p) /\ id = m_nodes[p]
       /\ UNCHANGED <<m_nodes, nodes>>
    \/ /\ ~Cached(p) /\ Dig(m_root, p) = Null /\ id = NoNode
       /\ UNCHANGED <<m_nodes, nodes>>
    \/ /\ ~Cached(p) /\ Dig(m_root, p) # Null
       /\ Alive # NodeId /\ id = CHOOSE i \in NodeId : i \notin Alive
       /\ nodes' = [nodes EXCEPT ![id] = [path |-> p, value |-> Dig(m_root, p)]]
       /\ m_nodes' = m_nodes @@ (p :> id)

\* GetNode(p) returns id, NoNode for nullptr.  A node that is alive is given
\* again, whatever m_root says by now; an expired entry is erased, and a node
\* made of what Dig finds.
GetNode(p, id) ==
    \/ /\ Cached(p) /\ id = m_nodes[p]
       /\ UNCHANGED <<m_nodes, nodes>>
    \/ /\ ~Cached(p) /\ Dig(m_root, p) = Null /\ id = NoNode
       /\ m_nodes' = [q \in DOMAIN m_nodes \ {p} |-> m_nodes[q]]
       /\ UNCHANGED nodes
    \/ /\ ~Cached(p) /\ Dig(m_root, p) # Null
       /\ Alive # NodeId /\ id = CHOOSE i \in NodeId : i \notin Alive
       /\ nodes' = [nodes EXCEPT ![id] = [path |-> p, value |-> Dig(m_root, p)]]
       /\ m_nodes' = [q \in DOMAIN m_nodes \cup {p} |-> IF q = p THEN id ELSE m_nodes[q]]

\* Mutant of FreeNode: m_nodes holds plain pointers.
FreeNodeDangles(id) ==
    /\ nodes' = [nodes EXCEPT ![id] = Dead]
    /\ pinned' = pinned \ {id}
    /\ UNCHANGED <<m_root, m_nodes>>

\* The last shared_ptr to a node goes, and what m_nodes had of it expires.
FreeNode(id) ==
    /\ nodes' = [nodes EXCEPT ![id] = Dead]
    /\ m_nodes' = [p \in DOMAIN m_nodes |-> IF m_nodes[p] = id THEN Expired ELSE m_nodes[p]]
    /\ pinned' = pinned \ {id}
    /\ UNCHANGED m_root

-----------------------------------------------------------------------------
\* Dig's loop finds what is at the path, and null where the path leads nowhere
\* or through a value that is no table.
DigFindsThePath ==
    \A p \in Path :
        LET below == {q \in DOMAIN m_root : IsPrefix(p, q)}
        IN Dig(m_root, p) = [q \in {SubSeq(r, Len(p) + 1, Len(r)) : r \in below} |-> m_root[p \o q]]

\* GetNode's cache: whoever holds a node for a path holds the one that GetNode
\* gives for it, also after its predecessor expired and after any Reload.  So
\* there is never more than one node per path.
EveryLiveNodeIsCached ==
    \A id \in Alive :
        nodes[id].path \in DOMAIN m_nodes /\ m_nodes[nodes[id].path] = id

\* TOOLING_PLAN.md 1.2: a reload replaces what was there, a failed one
\* preserves it.  A node shows what m_root has at its path, and is there only
\* if m_root has something there, unless it has been held since before m_root
\* was loaded.  (Then it is stale, and GetNode goes on giving it.)
StaleOnlyIfPinned ==
    \A id \in Alive \ pinned : nodes[id].value = Dig(m_root, nodes[id].path)
=============================================================================
