---------------------------- MODULE JsonValues ----------------------------
(* What function and class mode talk about: JSON values, texts, values in  *)
(* a program's memory and types.  A value is a record with one field that  *)
(* names its kind, so values of different kinds are never equal.  An       *)
(* object with its keys in order is [fields |-> pairs].                    *)
EXTENDS Integers, Sequences, FiniteSets

Null     == [null |-> TRUE]
Err      == [error |-> TRUE]      \* a Go error, or an exception in Python
Num(n)   == [num |-> n]           \* a number written without point or exponent
Dec(d, e) == [dec |-> <<d, e>>]   \* d * 10^e, d without trailing zeros
Bool(b)  == [bool |-> b]
Str(c)   == [str |-> c]           \* a string of the given class of characters
Arr(s)   == [arr |-> s]
Obj(f)   == [obj |-> f]

Is(kind, v) == DOMAIN v = {kind}

(* Nodes: heap maps a node to its value and its links (0 is a null pointer); *)
(* a pointer is its root and the heap it points into.                        *)
Ptr(root, heap) == [root |-> root, heap |-> heap]

(* A structure with other identities.                                        *)
Shift(p, by) ==
  LET new(n) == IF n = 0 THEN 0 ELSE n + by
  IN  Ptr(p.root + by,
          [n \in {m + by : m \in DOMAIN p.heap} |->
             [val |-> p.heap[n - by].val,
              links |-> [i \in DOMAIN p.heap[n - by].links |-> new(p.heap[n - by].links[i])]]])

(* An array, or null for the nil slice json.Unmarshal makes of it. *)
isArray(j) == Is("arr", j) \/ j = Null
arrayValues(j) == IF Is("arr", j) THEN j.arr ELSE <<>>

----------------------------------------------------------------------------
(* Types.  A type reference is a name, arguments and the pointer mark;     *)
(* const and & do not change the adapter and are left out.                 *)

Scalar(n)   == [name |-> n, args |-> <<>>, ptr |-> FALSE]
Pointer(n)  == [name |-> n, args |-> <<>>, ptr |-> TRUE]
Vector(t)   == [name |-> "vector", args |-> <<t>>, ptr |-> FALSE]
Optional(t) == [name |-> "optional", args |-> <<t>>, ptr |-> FALSE]

ScalarNames == {"int", "long long", "double", "bool", "string"}
NodeNames   == {"ListNode", "RandomListNode", "Node", "TreeNode", "GraphNode"}

IsVoid(t)   == t.args = <<>> /\ t.name = "void" /\ ~t.ptr
IsVector(t) == t.name = "vector" /\ t.args # <<>>
IsNode(t)   == t.args = <<>> /\ t.ptr

(* validateType of the Python backend; element is its verdict on the first *)
(* argument.                                                               *)
validateType(t, allowVoid, element) ==
  IF t.ptr THEN t.args = <<>> /\ t.name \in NodeNames
  ELSE IF t.args # <<>> THEN t.name \in {"vector", "optional"} /\ Len(t.args) = 1 /\ element
  ELSE t.name \in ScalarNames \/ (allowVoid /\ t.name = "void")

=============================================================================
