--------------------------- MODULE HarnessTypes ---------------------------
(* The value types of function and class mode: what the judge makes of a   *)
(* JSON value of a declared type (its canonical text), what the generated  *)
(* C++ and Python drivers build from it, and the text they print for it.   *)
(* These are the operators FunctionMode is parameterised by.               *)
EXTENDS JsonValues
LOCAL INSTANCE SequencesExt

CONSTANTS
  MaxInt,   \* stands for 2^31 - 1, the largest int
  MaxLong   \* stands for 2^63 - 1, the largest long long

(* Classes of strings, by what the three encoders do with the characters.  *)
Strings == {"empty", "ascii", "control", "latin", "u2028"}

----------------------------------------------------------------------------
Registered == {<<n, FALSE>> : n \in ScalarNames \cup {"void"}}
              \cup {<<n, TRUE>> : n \in NodeNames}

(* A container's own pointer mark is not looked at. *)
RECURSIVE Resolve(_)
Resolve(t) ==
  IF t.args = <<>> THEN <<t.name, t.ptr>> \in Registered
  ELSE /\ t.name \in {"vector", "optional"}
       /\ Len(t.args) = 1
       /\ Resolve(t.args[1])

(* What the Python backend accepts as the element of a container. *)
RECURSIVE pythonElement(_)
pythonElement(t) == validateType(t, FALSE, pythonElement(t.args[1]))

----------------------------------------------------------------------------
(* Numbers and strings as text.                                            *)

RECURSIVE Digits(_)
Digits(n) == IF n < 10 THEN 1 ELSE 1 + Digits(n \div 10)

RECURSIVE Dec10(_, _)
Dec10(d, e) == IF d # 0 /\ d % 10 = 0 THEN Dec10(d \div 10, e + 1) ELSE Dec(d, e)

Exponent(v) == v.dec[2] + Digits(v.dec[1]) - 1

(* strconv.FormatFloat(v, 'g', -1, 64) *)
GoForm(v) == IF Exponent(v) < -4 \/ Exponent(v) >= 6 THEN "sci" ELSE "fixed"

(* std::to_chars: the shorter of the two notations, fixed when they tie. *)
CppForm(v) ==
  LET nd == Digits(v.dec[1])
      x  == Exponent(v)
      fixed == IF x >= nd THEN x + 1
               ELSE IF x = nd - 1 THEN nd
               ELSE IF x >= 0 THEN nd + 1 ELSE nd + 1 - x
      sci   == nd + (IF nd > 1 THEN 1 ELSE 0) + 4
  IN  IF fixed <= sci THEN "fixed" ELSE "sci"

(* json.dumps of a float writes repr: a whole number ends in ".0". *)
PyForm(v) == IF Exponent(v) < -4 \/ Exponent(v) >= 16 THEN "sci"
             ELSE IF v.dec[2] >= 0 THEN "point zero" ELSE "fixed"

DoubleText(v, form) == [dec |-> v.dec, form |-> form]
StringText(c, escaped) == [str |-> c, escaped |-> c \in escaped]

GoEscapes  == {"control", "u2028"}
CppEscapes == {"control"}
PyEscapes  == {"control", "latin", "u2028"}   \* ensure_ascii is json.dumps' default

----------------------------------------------------------------------------
(* Walks through object graphs.                                            *)

RECURSIVE ReachFrom(_, _)
ReachFrom(heap, nodes) ==
  LET more == nodes \cup (UNION {ToSet(heap[i].links) : i \in nodes} \ {0})
  IN  IF more = nodes THEN nodes ELSE ReachFrom(heap, more)

Objects(p) == IF p = Null THEN {} ELSE ReachFrom(p.heap, {p.root})

(* Follow the first link until it ends or comes back. *)
RECURSIVE Chain(_, _, _)
Chain(heap, node, seen) ==
  IF node = 0 \/ node \in ToSet(seen) THEN seen
  ELSE Chain(heap, heap[node].links[1], Append(seen, node))

Cyclic(p) == LET c == Chain(p.heap, p.root, <<>>) IN p.heap[Last(c)].links[1] # 0

(* Level order with a slot for every child, visited nodes not expanded. *)
RECURSIVE LevelOrder(_, _, _, _)
LevelOrder(heap, queue, index, seen) ==
  IF index > Len(queue) THEN queue
  ELSE IF queue[index] = 0 \/ queue[index] \in seen
  THEN LevelOrder(heap, queue, index + 1, seen)
  ELSE LevelOrder(heap, queue \o heap[queue[index]].links, index + 1, seen \cup {queue[index]})

FirstOccurrences(s) == FoldLeft(LAMBDA acc, x : IF Contains(acc, x) THEN acc ELSE Append(acc, x), <<>>, s)

(* Breadth first, a node numbered when it is first met as a neighbour. *)
RECURSIVE Discover(_, _, _)
Discover(links, order, cursor) ==
  IF cursor > Len(order) THEN order
  ELSE LET new == SelectSeq(links[order[cursor]], LAMBDA n : n \notin ToSet(order))
       IN  Discover(links, order \o FirstOccurrences(new), cursor + 1)

RECURSIVE TrimLast(_, _)
TrimLast(s, x) == IF s # <<>> /\ Last(s) = x THEN TrimLast(Front(s), x) ELSE s

IndexIn(s, x) == CHOOSE i \in DOMAIN s : s[i] = x

----------------------------------------------------------------------------
(* JSON of the node types.                                                 *)

fitsInt(j) == Is("num", j) /\ j.num \in -(MaxInt + 1) .. MaxInt

parseRandomListJSON(j) ==
  \/ j = Null
  \/ /\ Is("obj", j) /\ {"values", "random"} \subseteq DOMAIN j.obj
     /\ isArray(j.obj["values"]) /\ isArray(j.obj["random"])
     /\ LET vals == arrayValues(j.obj["values"])
            rnd  == arrayValues(j.obj["random"])
        IN  /\ Len(vals) = Len(rnd)
            /\ \A i \in DOMAIN vals : fitsInt(vals[i])
            /\ \A i \in DOMAIN rnd :
                 rnd[i] = Null \/ (Is("num", rnd[i]) /\ rnd[i].num \in 0 .. Len(vals) - 1)

(* The graph's adjacency, node k of the JSON being node k + 1 here. *)
adjacency(j) ==
  LET rows == arrayValues(j.obj["neighbors"])
  IN  [i \in DOMAIN rows |-> [k \in DOMAIN arrayValues(rows[i]) |-> arrayValues(rows[i])[k].num + 1]]

parseGraphJSON(j) ==
  \/ j = Null
  \/ /\ Is("obj", j) /\ {"values", "neighbors"} \subseteq DOMAIN j.obj
     /\ isArray(j.obj["values"]) /\ isArray(j.obj["neighbors"])
     /\ LET vals == arrayValues(j.obj["values"])
            rows == arrayValues(j.obj["neighbors"])
        IN  /\ Len(vals) = Len(rows)
            /\ \A i \in DOMAIN vals : fitsInt(vals[i])
            /\ \A i \in DOMAIN rows : /\ isArray(rows[i])
                                      /\ \A n \in ToSet(arrayValues(rows[i])) :
                                           Is("num", n) /\ n.num \in 0 .. Len(vals) - 1
            /\ vals # <<>> => ToSet(Discover(adjacency(j), <<1>>, 1)) = DOMAIN vals

canonicalGraphJSON(j) ==
  IF ~parseGraphJSON(j) THEN Err
  ELSE IF j = Null \/ arrayValues(j.obj["values"]) = <<>> THEN Null
  ELSE LET vals  == arrayValues(j.obj["values"])
           adj   == adjacency(j)
           order == Discover(adj, <<1>>, 1)
       IN  [fields |-> <<<<"values", Arr([i \in DOMAIN order |-> vals[order[i]]])>>,
                         <<"neighbors", Arr([i \in DOMAIN order |->
                             Arr([k \in DOMAIN adj[order[i]] |->
                                    Num(IndexIn(order, adj[order[i]][k]) - 1)])])>>>>]

canonicalRandomListJSON(j) ==
  IF ~parseRandomListJSON(j) THEN Err
  ELSE IF j = Null \/ arrayValues(j.obj["values"]) = <<>> THEN Null
  ELSE [fields |-> <<<<"values", Arr(j.obj["values"].arr)>>, <<"random", Arr(j.obj["random"].arr)>>>>]

canonicalListJSON(j) ==
  IF ~isArray(j) \/ \E v \in ToSet(arrayValues(j)) : ~fitsInt(v) THEN Err
  ELSE IF arrayValues(j) = <<>> THEN Null ELSE j

canonicalTreeJSON(j) ==
  IF ~isArray(j) \/ \E v \in ToSet(arrayValues(j)) : v # Null /\ ~fitsInt(v) THEN Err
  ELSE LET kept == TrimLast(arrayValues(j), Null)
       IN  IF kept = <<>> THEN Null ELSE Arr(kept)

canonicalNodeJSON(t, j) ==
  CASE t.name = "ListNode"                    -> canonicalListJSON(j)
    [] t.name \in {"RandomListNode", "Node"}  -> canonicalRandomListJSON(j)
    [] t.name = "TreeNode"                    -> canonicalTreeJSON(j)
    [] t.name = "GraphNode"                   -> canonicalGraphJSON(j)

(* A scalar.  null reads as the zero value of bool and string. *)
canonicalScalarJSON(t, j) ==
  CASE t.name = "int"       -> IF fitsInt(j) THEN j ELSE Err
    [] t.name = "long long" -> IF Is("num", j) /\ j.num \in -(MaxLong + 1) .. MaxLong THEN j ELSE Err
    [] t.name = "double"    -> IF Is("num", j) THEN LET v == Dec10(j.num, 0) IN DoubleText(v, GoForm(v))
                               ELSE IF Is("dec", j) THEN DoubleText(j, GoForm(j)) ELSE Err
    [] t.name = "bool"      -> IF Is("bool", j) THEN j ELSE IF j = Null THEN Bool(FALSE) ELSE Err
    [] t.name = "string"    -> IF Is("str", j) THEN StringText(j.str, GoEscapes)
                               ELSE IF j = Null THEN StringText("empty", GoEscapes) ELSE Err
    [] t.name = "void"      -> Err

(* Adapter.CanonicalJSON: the text the judge expects, or Err. *)
RECURSIVE CanonicalJSON(_, _)
CanonicalJSON(t, j) ==
  IF t.name = "optional" THEN IF j = Null THEN Null ELSE CanonicalJSON(t.args[1], j)
  ELSE IF t.name = "vector"
  THEN LET items == [i \in DOMAIN arrayValues(j) |-> CanonicalJSON(t.args[1], arrayValues(j)[i])]
       IN  IF ~isArray(j) \/ Err \in ToSet(items) THEN Err ELSE Arr(items)
  ELSE IF t.ptr THEN canonicalNodeJSON(t, j) ELSE canonicalScalarJSON(t, j)

(* The JSON value a text stands for. *)
RECURSIVE ParseText(_)
ParseText(x) ==
  IF "dec" \in DOMAIN x THEN Dec(x.dec[1], x.dec[2])
  ELSE IF "str" \in DOMAIN x THEN Str(x.str)
  ELSE IF "arr" \in DOMAIN x THEN Arr([i \in DOMAIN x.arr |-> ParseText(x.arr[i])])
  ELSE IF "fields" \in DOMAIN x
  THEN Obj([k \in {x.fields[i][1] : i \in DOMAIN x.fields} |->
              ParseText(x.fields[CHOOSE i \in DOMAIN x.fields : x.fields[i][1] = k][2])])
  ELSE x

BagOf(s) == [x \in ToSet(s) |-> Cardinality({i \in DOMAIN s : s[i] = x})]

(* CanonicalUnorderedArrayJSON: the elements' canonical texts, sorted. *)
CanonicalUnordered(t, x) ==
  LET c == CanonicalJSON(t, ParseText(x))
  IN  IF ~IsVector(t) \/ c = Err THEN Err ELSE [bag |-> BagOf(c.arr)]

----------------------------------------------------------------------------
(* What a driver builds from an argument.                                  *)

NonNullBefore(vals, i) == Cardinality({k \in 1 .. i - 1 : vals[k] # Null})

(* Every node of the level order is a child of an earlier one. *)
WellFormedTree(vals) ==
  \A i \in DOMAIN vals : vals[i] # Null /\ i > 1 =>
    vals[1] # Null /\ i <= 2 * NonNullBefore(vals, i) + 1

buildList(vals) ==
  IF vals = <<>> THEN Null
  ELSE Ptr(1, [i \in DOMAIN vals |->
                 [val |-> vals[i].num, links |-> <<IF i < Len(vals) THEN i + 1 ELSE 0>>]])

buildRandomList(vals, random) ==
  IF vals = <<>> THEN Null
  ELSE Ptr(1, [i \in DOMAIN vals |->
                 [val |-> vals[i].num,
                  links |-> <<IF i < Len(vals) THEN i + 1 ELSE 0,
                              IF random[i] = Null THEN 0 ELSE random[i].num + 1>>]])

(* The k-th node that is not null takes the next two slots as children. *)
buildTree(vals) ==
  LET slot(i) == IF i <= Len(vals) /\ vals[i] # Null THEN i ELSE 0
      present == {i \in DOMAIN vals : vals[i] # Null}
  IN  IF vals = <<>> \/ vals[1] = Null THEN Null
      ELSE Ptr(1, [i \in present |->
                     [val |-> vals[i].num,
                      links |-> <<slot(2 * NonNullBefore(vals, i) + 2),
                                  slot(2 * NonNullBefore(vals, i) + 3)>>]])

buildGraph(j) ==
  LET vals == arrayValues(j.obj["values"])
  IN  IF vals = <<>> THEN Null
      ELSE Ptr(1, [i \in DOMAIN vals |-> [val |-> vals[i].num, links |-> adjacency(j)[i]]])

buildNode(t, j) ==
  IF j = Null THEN Null
  ELSE CASE t.name = "ListNode"                   -> buildList(j.arr)
         [] t.name \in {"RandomListNode", "Node"} ->
              buildRandomList(arrayValues(j.obj["values"]), arrayValues(j.obj["random"]))
         [] t.name = "TreeNode"                   -> buildTree(j.arr)
         [] t.name = "GraphNode"                  -> buildGraph(j)

(* A C++ literal of a validated value: null is the type's empty value. *)
RECURSIVE GenerateLiteral(_, _)
GenerateLiteral(t, j) ==
  IF t.name = "optional" THEN IF j = Null THEN Null ELSE GenerateLiteral(t.args[1], j)
  ELSE IF t.name = "vector"
  THEN Arr([i \in DOMAIN arrayValues(j) |-> GenerateLiteral(t.args[1], arrayValues(j)[i])])
  ELSE IF t.ptr THEN buildNode(t, j)
  ELSE CASE t.name = "double" /\ Is("num", j) -> Dec10(j.num, 0)
         [] t.name = "bool" /\ j = Null       -> Bool(FALSE)
         [] t.name = "string" /\ j = Null     -> Str("empty")
         [] OTHER                             -> j

(* Python: null is None whatever the type, and a tree with nodes no parent *)
(* reaches raises.                                                         *)
RECURSIVE buildPython(_, _)
buildPython(t, j) ==
  IF j = Null THEN Null
  ELSE IF t.name = "optional" THEN buildPython(t.args[1], j)
  ELSE IF t.name = "vector"
  THEN LET items == [i \in DOMAIN j.arr |-> buildPython(t.args[1], j.arr[i])]
       IN  IF Err \in ToSet(items) THEN Err ELSE Arr(items)
  ELSE IF t.ptr
  THEN IF t.name = "TreeNode" /\ ~WellFormedTree(j.arr) THEN Err ELSE buildNode(t, j)
  ELSE IF t.name = "double" /\ Is("num", j) THEN Dec10(j.num, 0) ELSE j

----------------------------------------------------------------------------
(* What a driver prints for a value.                                       *)

Values(heap, order) == Arr([i \in DOMAIN order |-> IF order[i] = 0 THEN Null ELSE Num(heap[order[i]].val)])

listText(p) == Values(p.heap, Chain(p.heap, p.root, <<>>))

(* (The C++ loop also ends at 200000 slots, which no instance comes near.) *)
treeText(p) == Values(p.heap, TrimLast(LevelOrder(p.heap, <<p.root>>, 1, {}), 0))

(* A random pointer that leaves the list prints as null. *)
randomListText(p) ==
  LET order == Chain(p.heap, p.root, <<>>)
      random(i) == p.heap[order[i]].links[2]
  IN  [fields |-> <<<<"values", Values(p.heap, order)>>,
                    <<"random", Arr([i \in DOMAIN order |->
                        IF random(i) \in ToSet(order) THEN Num(IndexIn(order, random(i)) - 1) ELSE Null])>>>>]

graphText(p) ==
  LET links == [i \in DOMAIN p.heap |-> p.heap[i].links]
      order == FirstOccurrences(LevelOrder(p.heap, <<p.root>>, 1, {}))
  IN  [fields |-> <<<<"values", Values(p.heap, order)>>,
                    <<"neighbors", Arr([i \in DOMAIN order |->
                        Arr([k \in DOMAIN links[order[i]] |-> Num(IndexIn(order, links[order[i]][k]) - 1)])])>>>>]

nodeText(t, p) ==
  CASE t.name = "ListNode"                   -> listText(p)
    [] t.name \in {"RandomListNode", "Node"} -> randomListText(p)
    [] t.name = "TreeNode"                   -> treeText(p)
    [] t.name = "GraphNode"                  -> graphText(p)

(* A type the C++ driver has a __serialize for.  The template of optional  *)
(* comes before those of vector, so only argument-dependent lookup can     *)
(* find them: for a vector that is made of nodes, which are global types.  *)
RECURSIVE LeafType(_)
LeafType(t) == IF t.name \in {"optional", "vector"} THEN LeafType(t.args[1]) ELSE t

RECURSIVE cppPrintable(_)
cppPrintable(t) ==
  CASE t.name = "optional" -> /\ IsVector(t.args[1]) => LeafType(t).ptr
                              /\ cppPrintable(t.args[1])
    [] t.name = "vector"   -> cppPrintable(t.args[1])
    [] OTHER               -> TRUE

(* __serialize of the C++ driver, for the types it compiles for. *)
RECURSIVE serializeCpp(_, _)
serializeCpp(t, v) ==
  IF v = Null THEN Null
  ELSE IF t.name = "optional" THEN serializeCpp(t.args[1], v)
  ELSE IF t.name = "vector" THEN Arr([i \in DOMAIN v.arr |-> serializeCpp(t.args[1], v.arr[i])])
  ELSE CASE t.ptr             -> nodeText(t, v)
         [] t.name = "double" -> DoubleText(v, CppForm(v))
         [] t.name = "string" -> StringText(v.str, CppEscapes)
         [] OTHER             -> v

(* A node structure the Python serializer raises on. *)
notAStructure(t, p) ==
  CASE t.name = "ListNode"                   -> Cyclic(p)
    [] t.name \in {"RandomListNode", "Node"} ->
         \/ Cyclic(p)
         \/ LET order == Chain(p.heap, p.root, <<>>)
            IN  \E i \in ToSet(order) : p.heap[i].links[2] \notin ToSet(order) \cup {0}
    [] t.name = "TreeNode"                   ->
         LET slots == SelectSeq(LevelOrder(p.heap, <<p.root>>, 1, {}), LAMBDA n : n # 0)
         IN  Len(slots) # Cardinality(ToSet(slots))
    [] t.name = "GraphNode"                  -> FALSE

(* __yexjudge_serialize_value of the Python driver, then json.dumps. *)
RECURSIVE serializePython(_, _)
serializePython(t, v) ==
  IF v = Null THEN Null
  ELSE IF t.name = "optional" THEN serializePython(t.args[1], v)
  ELSE IF t.name = "vector"
  THEN LET items == [i \in DOMAIN v.arr |-> serializePython(t.args[1], v.arr[i])]
       IN  IF Err \in ToSet(items) THEN Err ELSE Arr(items)
  ELSE CASE t.ptr             -> IF notAStructure(t, v) THEN Err ELSE nodeText(t, v)
         [] t.name = "double" -> DoubleText(v, PyForm(v))
         [] t.name = "string" -> StringText(v.str, PyEscapes)
         [] OTHER             -> v

----------------------------------------------------------------------------
(* References: what the values mean, said without any text.                *)

(* One structure is the other with its nodes renamed. *)
SameShape(p, q) ==
  IF p = Null \/ q = Null THEN p = q
  ELSE \E f \in [Objects(p) -> Objects(q)] :
         /\ f[p.root] = q.root
         /\ \A m, n \in Objects(p) : f[m] = f[n] => m = n
         /\ \A n \in Objects(p) :
              LET a == p.heap[n]
                  b == q.heap[f[n]]
              IN  /\ a.val = b.val
                  /\ DOMAIN a.links = DOMAIN b.links
                  /\ \A k \in DOMAIN a.links :
                       IF a.links[k] = 0 THEN b.links[k] = 0
                       ELSE b.links[k] = f[a.links[k]]

RECURSIVE SameValue(_, _, _)
SameValue(t, v, w) ==
  IF v = Null \/ w = Null THEN v = w
  ELSE IF t.name = "optional" THEN SameValue(t.args[1], v, w)
  ELSE IF t.name = "vector"
  THEN /\ Len(v.arr) = Len(w.arr)
       /\ \A i \in DOMAIN v.arr : SameValue(t.args[1], v.arr[i], w.arr[i])
  ELSE IF t.ptr THEN SameShape(v, w) ELSE v = w

(* The elements agree in some order. *)
SameBag(t, v, w) ==
  /\ Len(v.arr) = Len(w.arr)
  /\ \E f \in Permutations(DOMAIN v.arr) :
       \A i \in DOMAIN v.arr : SameValue(t.args[1], v.arr[i], w.arr[f[i]])

(* The driver writes the number or string as the judge's encoder does. *)
RECURSIVE AgreedText(_, _, _)
AgreedText(lang, t, v) ==
  IF v = Null \/ t.ptr THEN TRUE
  ELSE IF t.name = "optional" THEN AgreedText(lang, t.args[1], v)
  ELSE IF t.name = "vector" THEN \A i \in DOMAIN v.arr : AgreedText(lang, t.args[1], v.arr[i])
  ELSE CASE t.name = "double" -> GoForm(v) = IF lang = "python" THEN PyForm(v) ELSE CppForm(v)
         [] t.name = "string" -> v.str \in GoEscapes <=>
                                 v.str \in IF lang = "python" THEN PyEscapes ELSE CppEscapes
         [] OTHER             -> TRUE

(* A tree is written in a level order every node of which has a parent. *)
RECURSIVE OwnLevelOrder(_, _)
OwnLevelOrder(t, v) ==
  IF v = Null THEN TRUE
  ELSE IF t.name = "optional" THEN OwnLevelOrder(t.args[1], v)
  ELSE IF t.name = "vector" THEN \A i \in DOMAIN v.arr : OwnLevelOrder(t.args[1], v.arr[i])
  ELSE t = Pointer("TreeNode") => WellFormedTree(v.arr)

----------------------------------------------------------------------------
(* A structure that is not the list or tree its type says: the list's end  *)
(* tied to its head, a subtree hung in twice, a random pointer into the    *)
(* argument.                                                               *)
Tied(t, p) ==
  CASE t.name = "ListNode" -> [p EXCEPT !.heap[Last(Chain(p.heap, p.root, <<>>))].links[1] = p.root]
    [] t.name = "TreeNode" -> [p EXCEPT !.heap[p.root].links[2] = p.heap[p.root].links[1]]
    [] t.name \in {"RandomListNode", "Node"} ->
         LET c == Shift(p, 100)
         IN  Ptr(c.root, [n \in DOMAIN c.heap \cup DOMAIN p.heap |->
                            IF n \in DOMAIN p.heap THEN p.heap[n]
                            ELSE IF n = c.root THEN [c.heap[n] EXCEPT !.links[2] = p.root]
                            ELSE c.heap[n]])
    [] t.name = "GraphNode" -> p

=============================================================================
