---------------------------- MODULE ScatterGather ----------------------------
(* standalone_vec.c: HVX scatters and gathers on the vector TCM, each checked *)
(* against a scalar loop.  The program only issues a vector; the elements are *)
(* stored or fetched later by the scatter/gather unit (external), which takes *)
(* vectors in order and the elements of one vector in any order.  What makes  *)
(* the result visible is a scatter_release and a load of the same line, or a  *)
(* load of the line a gather writes.                                          *)
(*                                                                            *)
(* An element is the number its bytes form, all of them the same letter.      *)
(* Letters stay below 128 and the accumulated digits below 10, so no sum      *)
(* leaves its 16 or 32 bits.                                                  *)
EXTENDS Naturals, Sequences

CONSTANT MATRIX_SIZE        \* 64 halfwords, one HVX vector, in the source

ASSUME MatrixAssumption == MATRIX_SIZE \in Nat /\ MATRIX_SIZE >= 2 /\ MATRIX_SIZE % 2 = 0

Lanes == 0 .. MATRIX_SIZE - 1
LoLanes == 0 .. MATRIX_SIZE \div 2 - 1
HiLanes == Lanes \ LoLanes
BufferIndex == 0 .. MATRIX_SIZE * MATRIX_SIZE - 1
region_len == 4 * MATRIX_SIZE * MATRIX_SIZE - 1

Kinds == {"16", "32", "16_32"}              \* element and offset widths
ElementSize(k) == IF k = "32" THEN 4 ELSE 2
Letters(k, c) == c * (IF k = "32" THEN 16843009 ELSE 257)
FILL_CHAR == 46                             \* '.'
GATHER_INIT == 63                           \* '?'

VARIABLES
    sgStep,             \* the call main has reached, and whether it has issued
    tables,             \* offsets, values and predicates of the current kind
    vscatter, vgather,  \* the buffers in the TCM, by kind
    unit,               \* vectors the unit has not retired
    sgFail

sgVars == <<sgStep, tables, vscatter, vgather, unit, sgFail>>

-----------------------------------------------------------------------------
(* Tables: a diagonal of the matrix, a letter, a digit and a mark per lane.  *)

Table(k, letter, mark, preds) ==
    [k |-> k,
     off |-> [i \in Lanes |-> i * (ElementSize(k) * MATRIX_SIZE + ElementSize(k))],
     val |-> [i \in Lanes |-> Letters(k, letter + (i % 12))],
     acc |-> [i \in Lanes |-> (i % 10) * 257],
     q   |-> [i \in Lanes |-> Letters(k, mark)],
     pred |-> preds]

create_preds_16 == [i \in Lanes |-> i % 3 = 0 \/ i % 5 = 0]
create_preds_32 == [i \in Lanes |-> i % 4 = 0 \/ i % 7 = 0]
create_preds_16_32 == [i \in Lanes |-> i % 2 = 0 \/ i % 13 = 0]

create_offsets_and_values_16 == Table("16", 65, 64, create_preds_16)
create_offsets_and_values_32 == Table("32", 65, 38, create_preds_32)
create_offsets_and_values_16_32 == Table("16_32", 68, 36, create_preds_16_32)

create_tables(k) ==
    CASE k = "16" -> create_offsets_and_values_16
      [] k = "32" -> create_offsets_and_values_32
      [] k = "16_32" -> create_offsets_and_values_16_32

-----------------------------------------------------------------------------
(* Vectors.  A line names where a release or a gather stores.                *)

vshuff(v) == [e \in Lanes |-> IF e % 2 = 0 THEN v[e \div 2] ELSE v[MATRIX_SIZE \div 2 + e \div 2]]
vdeal(v) == [e \in Lanes |-> IF e \in LoLanes THEN v[2 * e] ELSE v[2 * e - MATRIX_SIZE + 1]]

(* A halfword vector with a pair of word offset vectors takes the offset of  *)
(* an even lane from the low and of an odd lane from the high vector.        *)
PairOffset(off, e) == off[e \div 2 + IF e % 2 = 0 THEN 0 ELSE MATRIX_SIZE \div 2]

Vector(type, k, line, elems) == [type |-> type, k |-> k, line |-> line, elems |-> elems]
NoLine == <<>>
Scattered(k) == <<"vscatter", k>>
Gathered(k) == <<"vgather", k>>
Release(line) == Vector("release", "16", line, {})

SourceOf(op) == IF op = "scatter" THEN tables.val ELSE IF op = "acc" THEN tables.acc ELSE tables.q
PredicateOf(op) == IF op \in {"q", "gather_q"} THEN tables.pred ELSE [i \in Lanes |-> TRUE]

StoreLanes(op, lanes) ==
    {[off |-> tables.off[i], val |-> SourceOf(op)[i]] : i \in {i \in lanes : PredicateOf(op)[i]}}
FetchLanes(op, lanes) ==
    {[off |-> tables.off[i], lane |-> i] : i \in {i \in lanes : PredicateOf(op)[i]}}

vector_scatter_16(op) == <<Vector(op, "16", NoLine, StoreLanes(op, Lanes)), Release(Scattered("16"))>>

(* vector_scatter_q_32 releases and loads vscatter16: any line will do as    *)
(* long as it is the same one twice.                                         *)
vector_scatter_32(op) ==
    <<Vector(op, "32", NoLine, StoreLanes(op, LoLanes)),
      Vector(op, "32", NoLine, StoreLanes(op, HiLanes)),
      Release(Scattered(IF op = "q" THEN "16" ELSE "32"))>>

vector_scatter_16_32(op) ==
    LET values == vshuff(SourceOf(op))
        preds == vshuff(PredicateOf(op))
    IN <<Vector(op, "16_32", NoLine, {[off |-> PairOffset(tables.off, e), val |-> values[e]] :
                                         e \in {e \in Lanes : preds[e]}}),
         Release(Scattered("16_32"))>>

vector_gather_16(op) == <<Vector("gather", "16", Gathered("16"), FetchLanes(op, Lanes))>>

vector_gather_32(op) ==
    <<Vector("gather", "32", Gathered("lo"), FetchLanes(op, LoLanes)),
      Vector("gather", "32", Gathered("hi"), FetchLanes(op, HiLanes))>>

vector_gather_16_32(op) ==
    LET preds == vshuff(PredicateOf(op))
    IN <<Vector("gather", "16_32", Gathered("16_32"), {[off |-> PairOffset(tables.off, e), lane |-> e] :
                                                      e \in {e \in Lanes : preds[e]}})>>

VectorsOf(k, op) ==
    CASE op \in {"scatter", "acc", "q"} /\ k = "16" -> vector_scatter_16(op)
      [] op \in {"scatter", "acc", "q"} /\ k = "32" -> vector_scatter_32(op)
      [] op \in {"scatter", "acc", "q"} /\ k = "16_32" -> vector_scatter_16_32(op)
      [] op \in {"gather", "gather_q"} /\ k = "16" -> vector_gather_16(op)
      [] op \in {"gather", "gather_q"} /\ k = "32" -> vector_gather_32(op)
      [] op \in {"gather", "gather_q"} /\ k = "16_32" -> vector_gather_16_32(op)

(* Wrong variant: a gather in two halves waits for the first one.            *)
LoadFirstHalf(k, op) ==
    CASE op \in {"scatter", "acc"} -> Scattered(k)
      [] op = "q" -> Scattered(IF k = "32" THEN "16" ELSE k)
      [] op \in {"gather", "gather_q"} -> Gathered(IF k = "32" THEN "lo" ELSE k)

(* The line whose load ends the call.                                        *)
DummyLoad(k, op) ==
    CASE op \in {"scatter", "acc"} -> Scattered(k)
      [] op = "q" -> Scattered(IF k = "32" THEN "16" ELSE k)
      [] op \in {"gather", "gather_q"} -> Gathered(IF k = "32" THEN "hi" ELSE k)

-----------------------------------------------------------------------------
(* The scatter/gather unit.                                                  *)

InRegion(k, off) == off + ElementSize(k) - 1 <= region_len

UnitElement ==
    /\ unit # <<>>
    /\ \E e \in Head(unit).elems :
         LET v == Head(unit)
             x == e.off \div ElementSize(v.k)
         IN /\ unit' = [unit EXCEPT ![1].elems = @ \ {e}]
            /\ vscatter' = IF v.type = "gather" \/ ~ InRegion(v.k, e.off) THEN vscatter
                           ELSE [vscatter EXCEPT ![v.k][x] = IF v.type = "acc" THEN @ + e.val ELSE e.val]
            /\ vgather' = IF v.type # "gather" \/ ~ InRegion(v.k, e.off) THEN vgather
                          ELSE [vgather EXCEPT ![v.k][e.lane] = vscatter[v.k][x]]
    /\ UNCHANGED <<sgStep, tables, sgFail>>

UnitRetire ==
    /\ unit # <<>> /\ Head(unit).elems = {}
    /\ unit' = Tail(unit)
    /\ UNCHANGED <<sgStep, tables, vscatter, vgather, sgFail>>

-----------------------------------------------------------------------------
(* The scalar loops and checks.                                              *)

ScalarStore(buf, lanes, vals, keep) ==
    [x \in BufferIndex |->
        IF \E i \in lanes : tables.off[i] \div ElementSize(tables.k) = x
          THEN keep * buf[x] + vals[CHOOSE i \in lanes : tables.off[i] \div ElementSize(tables.k) = x]
          ELSE buf[x]]
Replace == 0        \* how much of the old element is kept
Add == 1
Predicated == {i \in Lanes : tables.pred[i]}

scalar_scatter(k) == ScalarStore([x \in BufferIndex |-> Letters(k, FILL_CHAR)], Lanes, tables.val, Replace)
scalar_scatter_acc(k) == ScalarStore(scalar_scatter(k), Lanes, tables.acc, Add)
scalar_scatter_q(k) == ScalarStore(scalar_scatter_acc(k), Predicated, tables.q, Replace)

check_scatter(k, op) ==
    vscatter[k] = CASE op = "scatter" -> scalar_scatter(k)
                    [] op = "acc" -> scalar_scatter_acc(k)
                    [] op = "q" -> scalar_scatter_q(k)

check_gather(k, op) ==
    \A i \in Lanes :
        vgather[k][i] = IF op = "gather" \/ tables.pred[i]
                          THEN vscatter[k][tables.off[i] \div ElementSize(k)]
                          ELSE Letters(k, GATHER_INIT)

-----------------------------------------------------------------------------
(* main: for each kind, its tables and then five calls, each checked.        *)

MainKinds == <<"16", "32", "16_32">>
MainCalls == <<"scatter", "gather", "gather_q", "acc", "q">>
SgInMain == sgStep.kind <= Len(MainKinds)
SgKind == MainKinds[sgStep.kind]
SgCall == MainCalls[sgStep.call]

SgInit ==
    /\ sgStep = [kind |-> 1, call |-> 1, at |-> "issue"]
    /\ tables = create_tables("16")
    /\ vscatter = [k \in Kinds |-> [x \in BufferIndex |-> Letters(k, FILL_CHAR)]]
    /\ vgather = [k \in Kinds |-> [i \in Lanes |-> Letters(k, FILL_CHAR)]]
    /\ unit = <<>>
    /\ sgFail = FALSE

(* A predicated gather first fills its destination.                          *)
SgIssue ==
    /\ SgInMain /\ sgStep.at = "issue"
    /\ unit' = unit \o VectorsOf(SgKind, SgCall)
    /\ vgather' = IF SgCall = "gather_q"
                    THEN [vgather EXCEPT ![SgKind] = [i \in Lanes |-> Letters(SgKind, GATHER_INIT)]]
                    ELSE vgather
    /\ sgStep' = [sgStep EXCEPT !.at = "sync"]
    /\ UNCHANGED <<tables, vscatter, sgFail>>

(* The dummy load stalls while the unit holds its line.  A 16_32 gather then *)
(* deals its elements back into order.                                       *)
SgSync ==
    /\ SgInMain /\ sgStep.at = "sync"
    /\ \A n \in DOMAIN unit : unit[n].line # DummyLoad(SgKind, SgCall)
    /\ vgather' = IF SgKind = "16_32" /\ SgCall \in {"gather", "gather_q"}
                    THEN [vgather EXCEPT !["16_32"] = vdeal(@)] ELSE vgather
    /\ sgStep' = [sgStep EXCEPT !.at = "check"]
    /\ UNCHANGED <<tables, vscatter, unit, sgFail>>

SgCheck ==
    /\ SgInMain /\ sgStep.at = "check"
    /\ sgFail' = (sgFail \/ ~ IF SgCall \in {"gather", "gather_q"}
                                THEN check_gather(SgKind, SgCall) ELSE check_scatter(SgKind, SgCall))
    /\ sgStep' = IF sgStep.call < Len(MainCalls)
                   THEN [sgStep EXCEPT !.call = @ + 1, !.at = "issue"]
                   ELSE [kind |-> sgStep.kind + 1, call |-> 1, at |-> "issue"]
    /\ tables' = IF sgStep'.kind # sgStep.kind /\ sgStep'.kind <= Len(MainKinds)
                   THEN create_tables(MainKinds[sgStep'.kind]) ELSE tables
    /\ UNCHANGED <<vscatter, vgather, unit>>

SgNext == UnitElement \/ UnitRetire \/ SgIssue \/ SgSync \/ SgCheck
SgDone == ~ SgInMain
=============================================================================
