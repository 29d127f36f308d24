------------------------------ MODULE NodeInfo ------------------------------
(***************************************************************************)
(* The generated model class NodeInfo (models/node_info.py): four          *)
(* optional attributes set by the constructor or by property setters, a    *)
(* structural conversion to_dict, and __eq__ / __ne__ defined through it.  *)
(*                                                                         *)
(* A Python value an attribute can hold is abstracted to: None; an         *)
(* instance of a nested model class ([model |-> t]) whose own to_dict      *)
(* gives the dict [dict |-> t]; or a plain dict ([dict |-> t]).  The token *)
(* t stands for the contents, so two values with the same token serialise *)
(* alike.  The decoder, ApiClient.__deserialize, is not part of src/ and  *)
(* is modelled from the spec (section 4.2: it reads the wire keys).        *)
(***************************************************************************)
EXTENDS FiniteSets

CONSTANTS
  Objs,     \* names bound to NodeInfo instances
  Tokens,   \* contents of nested models and dicts
  None      \* Python None (model value)

Models == [model : Tokens]
Dicts  == [dict : Tokens]

\* swagger_types: the attributes and the values their declared types admit
\* (labels is dict(str, str); the others are model classes, which a caller
\* may also give as the equivalent plain dict).
Attrs == {"compute_node_info", "labels", "node_type", "peer_info"}
AttrValues(a) == IF a = "labels" THEN {None} \cup Dicts
                 ELSE {None} \cup Models \cup Dicts

\* attribute_map: attribute name to JSON key.
AttributeMap ==
  [compute_node_info |-> "ComputeNodeInfo", labels |-> "Labels",
   node_type |-> "NodeType", peer_info |-> "PeerInfo"]

Unset == [a \in Attrs |-> None]

\* __init__ arguments: a value or None for each attribute.
Kwargs == {f \in [Attrs -> {None} \cup Models \cup Dicts] :
             \A a \in Attrs : f[a] \in AttrValues(a)}

VARIABLE obj   \* obj[o]: the attribute values of the instance bound to o

\* `o = NodeInfo()`.
Init == obj = [o \in Objs |-> Unset]

\* `o = NodeInfo(**kw)`: a new instance; the constructor sets _a to None
\* and then calls the setter of every argument that is not None.
Construct(o, kw) == obj' = [obj EXCEPT ![o] = kw]

\* Mutant: the node_type setter copied from labels' and assigning _labels.
SetterWrongField(o, a, v) ==
  obj' = [obj EXCEPT ![o][IF a = "node_type" THEN "labels" ELSE a] = v]

\* `o.a = v`: the property setter assigns _a unchanged.
SetAttr(o, a, v) == obj' = [obj EXCEPT ![o][a] = v]

Next ==
  \/ \E o \in Objs, kw \in Kwargs : Construct(o, kw)
  \/ \E o \in Objs, a \in Attrs : \E v \in AttrValues(a) : SetAttr(o, a, v)

Spec == Init /\ [][Next]_obj

-----------------------------------------------------------------------------
(* to_dict, __eq__, __ne__                                                *)

\* One attribute's entry of to_dict: a value with to_dict is converted; a
\* dict is copied with its values converted (labels holds strings, so it
\* is copied unchanged); anything else is kept.  No attribute is
\* list-typed, so the list branch does not apply.
ToDictValue(v) == IF v \in Models THEN [dict |-> v.model] ELSE v

\* to_dict: one entry per attribute of swagger_types, keyed by the
\* attribute name; NodeInfo is not a dict subclass, so nothing is merged.
ToDict(f) == [a \in Attrs |-> ToDictValue(f[a])]

\* The values __eq__ and __ne__ may be given: a NodeInfo instance, or any
\* other object (None, a dict).
Instance(f) == [node_info |-> f]
IsNodeInfo(x) == x # None /\ DOMAIN x = {"node_info"}

\* Mutant: __eq__ comparing the instances' attributes (__dict__).
EqByAttributes(self, other) ==
  IsNodeInfo(other) /\ self = other.node_info

NodeInfoEq(self, other) ==
  IsNodeInfo(other) /\ ToDict(self) = ToDict(other.node_info)

\* Mutant: __ne__ answering False for a non-NodeInfo, like __eq__ does.
NeCopiedFromEq(self, other) ==
  IsNodeInfo(other) /\ ToDict(self) # ToDict(other.node_info)

NodeInfoNe(self, other) ==
  ~IsNodeInfo(other) \/ ToDict(self) # ToDict(other.node_info)

-----------------------------------------------------------------------------
(* The decoder (ApiClient, modelled from the spec)                         *)

\* A model-typed attribute decodes a dict into an instance; labels stays a
\* dict.
DecodeValue(a, v) ==
  IF v \in Dicts /\ a # "labels" THEN [model |-> v.dict] ELSE v

\* Build a NodeInfo from a mapping d, reading each attribute under its
\* wire key; an absent key leaves the attribute unset.
Deserialize(d) ==
  [a \in Attrs |-> IF AttributeMap[a] \in DOMAIN d
                   THEN DecodeValue(a, d[AttributeMap[a]]) ELSE None]

-----------------------------------------------------------------------------
(* Properties                                                              *)

\* The wire form of an instance, as the spec's data model defines it: the
\* set attributes only, under their JSON keys, nested models as dicts.
Serialized(f) ==
  LET set == {a \in Attrs : f[a] # None}
  IN  [k \in {AttributeMap[a] : a \in set} |->
         ToDictValue(f[CHOOSE a \in set : AttributeMap[a] = k])]

TypeOK == obj \in [Objs -> Kwargs]

\* __eq__ is structural equality (spec section 3): two instances, however
\* their attributes were set (a nested model or the equivalent dict, via
\* the constructor or a setter), are equal exactly when their wire forms
\* are.
EqIsStructural ==
  \A o1, o2 \in Objs :
     NodeInfoEq(obj[o1], Instance(obj[o2]))
       <=> Serialized(obj[o1]) = Serialized(obj[o2])

\* __ne__ is the negation of __eq__ for every other object: another
\* instance, its own to_dict() result, or None.
NeIsNotEq ==
  \A o \in Objs :
     \A x \in {Instance(obj[p]) : p \in Objs} \cup {ToDict(obj[o]), None} :
        NodeInfoNe(obj[o], x) = ~NodeInfoEq(obj[o], x)

\* Spec section 8, round-trip law: decoding the structural conversion of
\* an instance yields an equal instance.
RoundTrip ==
  \A o \in Objs :
     NodeInfoEq(Deserialize(ToDict(obj[o])), Instance(obj[o]))

\* Spec sections 3 and 8: the structural conversion omits unset attributes
\* rather than emitting null.
UnsetOmitted ==
  \A o \in Objs :
     \A a \in Attrs : obj[o][a] = None => a \notin DOMAIN ToDict(obj[o])

=============================================================================
