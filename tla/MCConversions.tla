---------------------------- MODULE MCConversions ----------------------------
(* One buffer of every form that behaves unlike the others, and strings and *)
(* bytes arrays that hold some of them.                                     *)
EXTENDS Conversions

Forms == (TextForm \union JsonForm \union OpaqueForm \union MixedForm
            \union DOMAIN ArrayForm) \ {"string", "bytes0", "bytes1", "number2", "number3", "mixed_array", "spaced_null"}

MCContents ==
    {Plainly(form, FALSE) : form \in Forms}
    \union {Plainly(form, TRUE) : form \in {"null", "digest"}}
    \union {Quoted(Plainly(form, FALSE)) : form \in {"prose", "number"}}
    \union {Quoted(Quoted(Plainly("code", FALSE)))}
    \union {Boxed(Plainly(form, FALSE)) : form \in {"noise", "empty"}}
    \union {[Boxed(Plainly("prose", FALSE)) EXCEPT !.form = "bytes1"]}
=============================================================================
