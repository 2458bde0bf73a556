------------------------------ MODULE AuditDAG ------------------------------
(***************************************************************************)
(* sifr/audit_dag.py: the graph of messages.  A message is its content,    *)
(* which is all of it but the signature, its parents, which are a part of  *)
(* the content, and its signature.  A dag is the sequence of its nodes, in *)
(* the order of the dict, each with the stored copy of its message.        *)
(***************************************************************************)
EXTENDS Naturals, Sequences, SequencesExt

\* sha256_cid: over the message without its signature, and without collisions.
CidOf(message) == message.content

NodeFrom(message, valid) ==
  [cid |-> CidOf(message), parents |-> message.parents, valid |-> valid, stored |-> message]

Cids(dag) == {dag[i].cid : i \in DOMAIN dag}

Node(dag, cid) == dag[CHOOSE i \in DOMAIN dag : dag[i].cid = cid]

\* Mutation: a message that is known is not added again.
AddIfNew(dag, node) == IF node.cid \in Cids(dag) THEN dag ELSE Append(dag, node)

\* add_message: the CID leaves the signature out, so a message that is added
\* again replaces its node, which keeps its place.
AddMessage(dag, node) ==
  IF node.cid \in Cids(dag)
  THEN [i \in DOMAIN dag |-> IF dag[i].cid = node.cid THEN node ELSE dag[i]]
  ELSE Append(dag, node)

\* Mutation: also when it was visited on another way.
VisitsKnown(dag, seen, cid) == cid \in Cids(dag)

\* visit goes on to a parent that is known and not in the lineage so far.
Visits(dag, seen, cid) == cid \in Cids(dag) \ Range(seen)

\* get_lineage: depth first, known parents before the node, each node once.
\* walk[<<at, k, seen>>] is the lineage so far, seen, with what the parents
\* of at from the k-th on add to it, and then at itself.
Lineage(dag, cid) ==
  LET walk[q \in Cids(dag) \X (Nat \ {0}) \X Seq(Cids(dag))] ==
        LET at == q[1]  k == q[2]  seen == q[3]
            parents == Node(dag, at).parents
        IN  IF k > Len(parents) THEN Append(seen, at)
            ELSE IF Visits(dag, seen, parents[k])
                 THEN walk[<<at, k + 1, walk[<<parents[k], 1, seen>>]>>]
                 ELSE walk[<<at, k + 1, seen>>]
  IN  walk[<<cid, 1, <<>>>>]

MissingParents(dag) ==
  {pair \in UNION {{<<n.cid, p>> : p \in {n.parents[i] : i \in DOMAIN n.parents}} :
                     n \in {dag[i] : i \in DOMAIN dag}} : pair[2] \notin Cids(dag)}

\* detect_tampering
Tampered(dag) == {n.cid : n \in {m \in Range(dag) : CidOf(m.stored) # m.cid}}

\* verify_dag_integrity returns.
Intact(dag) ==
  /\ MissingParents(dag) = {}
  /\ Tampered(dag) = {}
  /\ \A i \in DOMAIN dag : dag[i].valid
=============================================================================
