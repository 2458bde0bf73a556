------------------------------ MODULE AuditLog ------------------------------
(***************************************************************************)
(* An AuditDAG as sifr/audit_dag.py offers it: messages are added in any   *)
(* order and again, with what the caller knows of their signatures.  What  *)
(* the class does not control is a step of the environment, as in its      *)
(* tests: a stored copy changes, or a node is dropped with its message.    *)
(***************************************************************************)
EXTENDS AuditDAG

CONSTANTS
  Contents,     \* messages without their signatures
  ParentsOf,    \* the parents that each of them names
  Signatures,   \* values of the signature field
  Damaged,      \* a content that no message has
  MaxDamages    \* bound of the exploration: changed and dropped messages

ASSUME LogAssumption ==
  /\ ParentsOf \in [Contents -> Seq(Contents)]
  /\ Damaged \notin Contents
  /\ MaxDamages \in Nat

VARIABLES
  dag,     \* AuditDAG.nodes and AuditDAG.messages
  added,   \* history: per CID, the last add_message
  damages  \* how many messages were changed or dropped

vars == <<dag, added, damages>>

Message(content, signature) ==
  [content |-> content, parents |-> ParentsOf[content], signature |-> signature]

Messages == {Message(content, signature) : content \in Contents, signature \in Signatures}

Init == dag = <<>> /\ added = [c \in {} |-> 0] /\ damages = 0

\* add_message
Add(message, valid) ==
  /\ dag' = AddMessage(dag, NodeFrom(message, valid))
  /\ added' = [c \in DOMAIN added \cup {CidOf(message)} |->
                 IF c = CidOf(message) THEN [message |-> message, valid |-> valid] ELSE added[c]]
  /\ UNCHANGED damages

MayDamage == damages < MaxDamages /\ damages' = damages + 1

\* messages[cid] changes: its content, or its signature.
Change(i) ==
  /\ MayDamage
  /\ \/ dag' = [dag EXCEPT ![i].stored.content = Damaged]
     \/ \E signature \in Signatures \ {dag[i].stored.signature} :
          dag' = [dag EXCEPT ![i].stored.signature = signature]
  /\ UNCHANGED added

\* del nodes[cid], messages[cid]
Drop(i) ==
  /\ MayDamage
  /\ dag' = RemoveAt(dag, i)
  /\ UNCHANGED added

Next ==
  \/ \E message \in Messages, valid \in BOOLEAN : Add(message, valid)
  \/ \E i \in DOMAIN dag : Change(i) \/ Drop(i)

Spec == Init /\ [][Next]_vars

-----------------------------------------------------------------------------
(* Properties                                                              *)

\* The nodes that a node descends from, through parents that are in the graph.
Ancestors(cid) ==
  LET parents(S) == UNION {Range(ParentsOf[c]) : c \in S} \cap Cids(dag)
      upto[n \in Nat] == IF n = 0 THEN {cid} ELSE upto[n - 1] \cup parents(upto[n - 1])
  IN  upto[Len(dag)]

\* get_lineage lists the node and its ancestors, each once and behind its
\* parents, whatever the order in which they were added and the gaps between.
LineageIsHistory ==
  \A cid \in Cids(dag) :
    LET lineage == Lineage(dag, cid) IN
    /\ IsInjective(lineage) /\ Range(lineage) = Ancestors(cid)
    /\ \A i, j \in DOMAIN lineage : lineage[i] \in Range(ParentsOf[lineage[j]]) => i < j

\* A graph that verify_dag_integrity lets pass holds what was last added under
\* each CID, once, with a valid signature, and the whole history of each node.
\* A copy that is added again without a valid signature, under the same CID,
\* does not pass because an earlier one had it.
VerifiedIsGenuine ==
  Intact(dag) =>
    \A i \in DOMAIN dag :
      /\ \A j \in DOMAIN dag : dag[j].cid = dag[i].cid => i = j
      /\ added[dag[i].cid].valid
      /\ dag[i].stored.content = dag[i].cid
      /\ \A p \in Range(ParentsOf[dag[i].cid]) : p \in Range(Lineage(dag, dag[i].cid))
=============================================================================
