---------------------------- MODULE Permissions ----------------------------
(***************************************************************************)
(* Which buttons there are: the walk over what `access/permissions` says   *)
(* of the credentials (permissions.py) and the buttons' setup (button.py), *)
(* as operators.  A path is the sequence of its parts, "/" the empty one,  *)
(* and an answer maps paths to the privileges it lists there with a 1.     *)
(***************************************************************************)
EXTENDS Sequences, SequenceTheorems, Integers, TLAPS

CONSTANTS Unknown,  \* the answer that could not be read
          Ungated   \* the privilege of a button that needs none

Answers(Paths, Privileges) == UNION {[some -> SUBSET Privileges] : some \in SUBSET Paths}

Holds(answer, path, privilege) == path \in DOMAIN answer /\ privilege \in answer[path]

\* is_granted
IsGranted(answer, path, privilege) ==
    \E depth \in 0..Len(path) : Holds(answer, SubSeq(path, 1, depth), privilege)

IsBelow(path, other) == Len(path) < Len(other) /\ SubSeq(other, 1, Len(path)) = path

\* is_granted_anywhere_below
IsGrantedAnywhereBelow(answer, path, privilege) ==
    \/ IsGranted(answer, path, privilege)
    \/ \E other \in DOMAIN answer :
          IsBelow(path, other) /\ Holds(answer, other, privilege)

\* Where a button's privilege is looked for.
GuestPath(id) == <<"vms", id>>
NodePath(id) == <<"nodes", id>>

\* button_permitted.  A button is a record of its kind and the id of what it
\* acts on, its privilege, and whether it acts on a node's guests in bulk.
Permitted(answer, button) ==
    \/ answer = Unknown
    \/ button.privilege = Ungated
    \/ CASE button.kind = "cluster" -> IsGranted(answer, <<>>, button.privilege)
         [] button.kind = "guest"   -> IsGranted(answer, GuestPath(button.id), button.privilege)
         [] button.kind = "node"    ->
                IF button.bulk
                THEN IsGrantedAnywhereBelow(answer, <<"vms">>, button.privilege)
                ELSE IsGranted(answer, NodePath(button.id), button.privilege)

\* The buttons of a setup: of what has data, with a storage for the backups.
Offered(buttons, answer, withData, storagePicked) ==
    {b \in buttons :
        /\ b.kind # "cluster" => b.id \in withData
        /\ b.backup => storagePicked
        /\ Permitted(answer, b)}

-----------------------------------------------------------------------------
LEMMA PrefixOfPrefix ==
    ASSUME NEW S, NEW path \in Seq(S), NEW m \in 0..Len(path), NEW d \in 0..m
    PROVE  SubSeq(SubSeq(path, 1, m), 1, d) = SubSeq(path, 1, d)
OBVIOUS

LEMMA SingletonsEqual ==
    ASSUME NEW S, NEW s \in Seq(S), NEW t \in Seq(S), Len(s) = 1, Len(t) = 1, s[1] = t[1]
    PROVE  s = t
<1>1. \A i \in 1..Len(s) : s[i] = t[i]
    OBVIOUS
<1> QED BY <1>1, SeqEqual

\* "Privileges propagate down the tree, so a grant on /vms or / covers
\* /vms/100" (permissions.py): what is granted on a path is granted below it.
THEOREM GrantsPropagate ==
    ASSUME NEW S, NEW path \in Seq(S), NEW m \in 0..Len(path), NEW answer, NEW privilege,
           IsGranted(answer, SubSeq(path, 1, m), privilege)
    PROVE  IsGranted(answer, path, privilege)
<1>1. Len(SubSeq(path, 1, m)) = m
    OBVIOUS
<1>2. PICK d \in 0..m : Holds(answer, SubSeq(SubSeq(path, 1, m), 1, d), privilege)
    BY <1>1 DEF IsGranted
<1>3. SubSeq(SubSeq(path, 1, m), 1, d) = SubSeq(path, 1, d)
    BY PrefixOfPrefix
<1>4. d \in 0..Len(path)
    OBVIOUS
<1> QED BY <1>2, <1>3, <1>4 DEF IsGranted

\* "A grant on a single guest is enough for the button to do something"
\* (button_permitted): a node has its bulk button whenever some guest has a
\* button of the same privilege.
THEOREM BulkFollowsGuests ==
    ASSUME NEW answer, answer # Unknown, NEW S, "vms" \in S, NEW id \in S,
           NEW guest, NEW node,
           guest.kind = "guest", guest.id = id, guest.privilege # Ungated,
           node.kind = "node", node.bulk = TRUE, node.privilege = guest.privilege,
           Permitted(answer, guest)
    PROVE  Permitted(answer, node)
<1> DEFINE path == GuestPath(id)
           privilege == guest.privilege
<1>1. IsGranted(answer, path, privilege)
    BY DEF Permitted
<1>2. path \in Seq(S) /\ Len(path) = 2
    BY DEF GuestPath
<1>3. PICK depth \in 0..2 : Holds(answer, SubSeq(path, 1, depth), privilege)
    BY <1>1, <1>2 DEF IsGranted
<1>4. CASE depth = 2
    <2>1. SubSeq(path, 1, 2) = path /\ SubSeq(path, 1, 1) = <<"vms">>
        <3> DEFINE above == SubSeq(path, 1, 1)
        <3>1. above \in Seq(S) /\ Len(above) = 1 /\ above[1] = "vms"
            BY <1>2 DEF GuestPath
        <3>2. <<"vms">> \in Seq(S) /\ Len(<<"vms">>) = 1 /\ <<"vms">>[1] = "vms"
            OBVIOUS
        <3> HIDE DEF above
        <3>3. above = <<"vms">>
            BY <3>1, <3>2, SingletonsEqual
        <3>4. SubSeq(path, 1, 2) = path
            BY <1>2
        <3> QED BY <3>3, <3>4 DEF above
    <2>2. IsBelow(<<"vms">>, path)
        BY <1>2, <2>1 DEF IsBelow
    <2>3. Holds(answer, path, privilege) /\ path \in DOMAIN answer
        BY <1>3, <1>4, <2>1 DEF Holds
    <2> QED BY <2>2, <2>3 DEF Permitted, IsGrantedAnywhereBelow
<1>5. CASE depth \in 0..1
    <2>1. SubSeq(path, 1, depth) = SubSeq(<<"vms">>, 1, depth)
        BY <1>5 DEF GuestPath
    <2>2. IsGranted(answer, <<"vms">>, privilege)
        BY <1>3, <1>5, <2>1 DEF IsGranted
    <2> QED BY <2>2 DEF Permitted, IsGrantedAnywhereBelow
<1> QED BY <1>3, <1>4, <1>5

\* Credentials that are given more lose no button, nor does a setup that could
\* not read them: what is offered under an answer is offered under one that
\* lists as much or more, and under none.
THEOREM MoreGrantsKeepButtons ==
    ASSUME NEW buttons, NEW withData, NEW storagePicked, NEW less, NEW more,
           less # Unknown,
           DOMAIN less \subseteq DOMAIN more,
           \A path \in DOMAIN less : less[path] \subseteq more[path],
           \A b \in buttons : b.kind \in {"cluster", "node", "guest"}
    PROVE  Offered(buttons, less, withData, storagePicked)
               \subseteq Offered(buttons, more, withData, storagePicked)
                   \cap Offered(buttons, Unknown, withData, storagePicked)
<1>1. ASSUME NEW path, NEW privilege, Holds(less, path, privilege)
      PROVE  Holds(more, path, privilege)
    BY <1>1 DEF Holds
<1>2. ASSUME NEW path, NEW privilege, IsGranted(less, path, privilege)
      PROVE  IsGranted(more, path, privilege)
    BY <1>1, <1>2 DEF IsGranted
<1>3. ASSUME NEW path, NEW privilege, IsGrantedAnywhereBelow(less, path, privilege)
      PROVE  IsGrantedAnywhereBelow(more, path, privilege)
    BY <1>1, <1>2, <1>3 DEF IsGrantedAnywhereBelow
<1>4. ASSUME NEW b \in buttons, Permitted(less, b)
      PROVE  Permitted(more, b)
    BY <1>2, <1>3, <1>4 DEF Permitted
<1>5. \A b \in buttons : Permitted(Unknown, b)
    BY DEF Permitted
<1> QED BY <1>4, <1>5 DEF Offered
=============================================================================
