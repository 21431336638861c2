------------------------------- MODULE Json -------------------------------
(***************************************************************************)
(* The generic JSON reader and writer of the SDK: ParserWrapper.h,         *)
(* SerializerWrapper.h, JsonParser.h and JsonSerializer.h.  The overloads  *)
(* of from_json and to_json are selected by the C++ type of the member;    *)
(* here a type is a descriptor and the overloads are the cases of two      *)
(* recursive operators.                                                    *)
(*                                                                         *)
(* A class is described by the types of its members, the keys its          *)
(* from_json reads and the keys its to_json writes; a member is named by   *)
(* its key.  A document is a function from keys to JSON values, a number   *)
(* is counted in halves (so that a fraction is seen to be cut off), bytes  *)
(* are sequences over {0, 1} in which 0 ends a C string, and an optional   *)
(* is a sequence of length 0 or 1.                                         *)
(***************************************************************************)
EXTENDS Naturals, Sequences, FiniteSets

Str == <<"string">>
Int64 == <<"int64">>
Bool == <<"bool">>
Bytes == <<"bytes">>                 \* shared_ptr<vector<unsigned char>>
\* An int64 member that its parser reads as a double.
IntOfDouble == <<"double">>
Vec(t) == <<"vector", t>>
Map(t) == <<"map", t>>
\* optional<T>, read with parse<optional<T>>: unset when the key is missing.
Opt(t) == <<"optional", t>>
\* optional<T>, read with parse<T>: set to T() when the key is missing.
OptSet(t) == <<"set optional", t>>
Class(members, from, to) == <<"class", members, from, to>>

MembersOf(c) == c[2]
ReadKeys(c) == c[3]
WrittenKeys(c) == c[4]

\* What doc.Parse leaves of a text that is not JSON, which JsonParser.h does
\* not hand to from_json.
Malformed == [malformed |-> TRUE]

RECURSIVE Default(_)
\* T(): the value of a default constructed member.
Default(t) ==
  CASE t[1] = "string" -> ""
    [] t[1] \in {"int64", "double"} -> 0
    [] t[1] = "bool" -> FALSE
    [] t[1] \in {"bytes", "vector", "map", "optional", "set optional"} -> <<>>
    [] t[1] = "class" -> [k \in DOMAIN MembersOf(t) |-> Default(MembersOf(t)[k])]

\* GetString() is turned into a std::string: it ends at the first zero byte.
CString(bytes) ==
  LET zeros == {i \in DOMAIN bytes : bytes[i] = 0}
  IN  IF zeros = {} THEN bytes
      ELSE SubSeq(bytes, 1, (CHOOSE i \in zeros : \A j \in zeros : i <= j) - 1)

RECURSIVE FromJson(_, _)
\* parse<T>(value, name): T() when the member is missing.
ParseMember(t, doc, k) ==
  LET T == IF t[1] = "set optional" THEN t[2] ELSE t
      v == IF k \in DOMAIN doc THEN FromJson(T, doc[k]) ELSE Default(T)
  IN  IF t[1] = "set optional" THEN <<v>> ELSE v

FromJson(t, j) ==
  CASE t[1] \in {"string", "bool"} -> j
    [] t[1] \in {"int64", "double"} -> j \div 2
    [] t[1] = "bytes" -> <<CString(j)>>
    [] t[1] = "optional" -> <<FromJson(t[2], j)>>
    [] t[1] = "vector" -> [i \in DOMAIN j |-> FromJson(t[2], j[i])]
    [] t[1] = "map" -> [k \in DOMAIN j |-> FromJson(t[2], j[k])]
    [] t[1] = "class" ->
         [k \in DOMAIN MembersOf(t) |->
            IF k \in ReadKeys(t) THEN ParseMember(MembersOf(t)[k], j, k)
                                 ELSE Default(MembersOf(t)[k])]

\* parse<T>(text): a text that is neither an object nor an array gives T().
Parse(c, doc) == IF doc = Malformed THEN Default(c) ELSE FromJson(c, doc)

\* An unset optional becomes Null, which serialize(key, ...) does not add.
IsNull(t, v) == t[1] \in {"bytes", "optional", "set optional"} /\ v = <<>>

RECURSIVE ToJson(_, _)
ToJson(t, v) ==
  CASE t[1] \in {"string", "bool"} -> v
    [] t[1] \in {"int64", "double"} -> 2 * v
    [] t[1] = "bytes" -> v[1]
    [] t[1] \in {"optional", "set optional"} -> ToJson(t[2], v[1])
    [] t[1] = "vector" -> [i \in DOMAIN v |-> ToJson(t[2], v[i])]
    [] t[1] = "map" -> [k \in DOMAIN v |-> ToJson(t[2], v[k])]
    [] t[1] = "class" ->
         [k \in {x \in WrittenKeys(t) : ~IsNull(MembersOf(t)[x], v[x])} |->
            ToJson(MembersOf(t)[k], v[k])]
===========================================================================
