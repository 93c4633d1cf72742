----------------------------- MODULE MCFingertip -----------------------------
(* Instances of Fingertip for TLC. *)
EXTENDS Fingertip

CONSTANTS source, part, whole, plan

Made(id, kind, inputs, gives) ==
    [id |-> id, kind |-> kind, inputs |-> inputs, def |-> plan, gives |-> gives]

\* A part is cut from the source, and makes the source in turn; the whole is
\* joined from both or converted from the part; transformations make the whole
\* and the source.  The celljoin that is recorded for the part is malformed.
Chain ==
    {Made(1, "expression", {source}, part),
     Made(2, "expression", {part}, source),
     Made(3, "celljoin", {source, part}, whole),
     Made(4, "expression", {part}, whole),
     Made(5, "transformation", {}, whole),
     Made(6, "celljoin", {}, part),
     Made(7, "transformation", {}, source)}
ChainMalformed == {r \in Chain : r.id = 6}

\* The part is cut from the whole that is joined from it.
CelljoinCycle ==
    {Made(1, "celljoin", {part}, whole), Made(2, "expression", {whole}, part)}

\* The identity expression that _evaluate_expression_after_validation records
\* and the transformation that made the checksum.
Identity ==
    {Made(1, "expression", {whole}, whole), Made(2, "transformation", {}, whole)}
=============================================================================
