----------------------------- MODULE MCEncoder -----------------------------
(***************************************************************************)
(* The encoder on the structure of MCStruct, with every combination of     *)
(* members and elements, and buffers from none to more than enough.        *)
(***************************************************************************)
EXTENDS EncoderText, MCStruct

\* The cells that hold an exist flag, and those that hold a count.
ExistCells == {a \in DOMAIN MCLayout : MCLayout[a] = "exist"}

Cell(kind, val) == [kind |-> kind, val |-> val]

\* A structure where the cells of set are the exist flags that are set.
Struct(set, pts, list) ==
  [a \in DOMAIN MCLayout |->
     LET kind == MCLayout[a] IN
     CASE kind = "exist" -> Cell(kind, a \in set)
       [] kind = "size"  -> Cell(kind, IF a = 11 THEN pts ELSE list)
       [] kind = "int"   -> Cell(kind, a - 14)
       [] kind = "int64" -> Cell(kind, 10)
       [] kind = "cstr"  -> Cell(kind, <<"\"">>)
       [] kind = "bool"  -> Cell(kind, a = 7)
       [] kind = "null"  -> Cell(kind, FALSE)]

\* Without "z", and with it after one other member.
MCInputs ==
  {Struct(set \cup points[2], points[1], list) :
     set \in SUBSET {1, 3, 6, 12, 16, 17}, list \in 0 .. 2,
     points \in {<<0, {8}>>, <<1, {8}>>, <<2, {10}>>, <<2, {}>>}}
    \cup {Struct({e, 19}, 0, 0) : e \in ExistCells}

\* The places of every structure, and no more: what its root is made of.
Places ==
  [m \in MCInputs |->
     LET parts(p) ==
           {PartAt(p[1], p[2], i) :
              i \in {j \in 1 .. PartCount(m, p[1], p[2]) : Present(m, p[1], p[2], j)}}
         level[n \in 0 .. 3] ==
           IF n = 0 THEN {<<"outer", 0>>}
           ELSE UNION {parts(p) : p \in {q \in level[n - 1] : HasParts(q[1])}}
     IN UNION {level[n] : n \in 0 .. 3}]

MCPlacesOf(m) == Places[m]

MCDepth ==
  [d \in MCDescs |->
     CASE d = "outer" -> 3 [] d \in {"pts", "in"} -> 2 [] d \in {"point", "list"} -> 1
       [] OTHER -> 0]

MCWordSize == 128
MCCapacities == {0, 9, 30, 58, 120}
=============================================================================
