------------------------------- MODULE MCInputs -------------------------------
(* A CR that is moved between specs: every kind of output, source and          *)
(* template, and a spec for every rule of validateSpec.                       *)
EXTENDS Inputs

CONSTANTS a, b, v, bad, ip

Named(n, key)  == [name |-> n, key |-> key, selector |-> "none"]
Matching(sel)  == [name |-> None, key |-> FALSE, selector |-> sel]
Source(n, refs) == [name |-> n, refs |-> refs]
Inline(t)      == [inline |-> t, from |-> None]
From(n)        == [inline |-> None, from |-> n]
NoTemplate     == [inline |-> None, from |-> None]

MCSpec(kind, sources, template, keys) ==
  [kind |-> kind, sa |-> IF kind = "RawObject" THEN "account" ELSE None,
   named |-> FALSE, template |-> template, keys |-> keys, sources |-> sources]

Direct   == Source("x", [ConfigMap |-> Named(a, TRUE)])
FromDNS  == Source("x", [DNS |-> Named("host", FALSE)])
Selected == Source("x", [ConfigMap |-> Matching("labels")])
InSecret == Source("y", [Secret |-> Named(a, TRUE)])

(* A source by name and a template elsewhere; a selector and a Secret.        *)
NamedSpec    == MCSpec("ConfigMap", <<Direct>>, From(b), <<>>)
SelectorSpec == MCSpec("Secret", <<Selected, InSecret>>, Inline(v), <<>>)

FromNamed    == {NamedSpec}
FromSelector == {SelectorSpec}

GoodSpecs ==
  {NamedSpec, SelectorSpec,
   MCSpec("RawObject", <<FromDNS>>, From(a), <<>>),
   MCSpec("ConfigMap", <<Direct, FromDNS>>, NoTemplate,
          <<[key |-> "k", template |-> Inline(v)], [key |-> "l", template |-> From(b)]>>)}

WrongSpecs ==
  LET s == MCSpec("ConfigMap", <<Direct>>, Inline(v), <<>>)
      k == [key |-> "k", template |-> Inline(v)] IN
  {[s EXCEPT !.template = NoTemplate],
   [s EXCEPT !.template.from = a],
   [s EXCEPT !.sources = <<Source("x", <<>>)>>],
   [s EXCEPT !.sources = <<Source("x", [ConfigMap |-> Named(a, TRUE), DNS |-> Named("host", FALSE)])>>],
   [s EXCEPT !.sources = <<Source(None, [ConfigMap |-> Named(a, TRUE)])>>],
   [s EXCEPT !.sources = <<Source("x", [DNS |-> Named(None, FALSE)])>>],
   [s EXCEPT !.sources = <<Source("x", [ConfigMap |-> Named(a, FALSE)])>>],
   [s EXCEPT !.sources = <<Source("x", [Secret |-> Matching("malformed")])>>],
   [s EXCEPT !.keys = <<k, k>>],
   [s EXCEPT !.keys = <<[k EXCEPT !.key = None]>>],
   [s EXCEPT !.keys = <<[k EXCEPT !.template.from = b]>>],
   [s EXCEPT !.kind = "RawObject", !.sa = ""],
   [s EXCEPT !.kind = "RawObject", !.sa = "account", !.named = TRUE],
   [s EXCEPT !.kind = "RawObject", !.sa = "account", !.keys = <<k>>]}

MCStarts ==
  {[o \in Objects |-> IF o = <<"Secret", b>> THEN Absent
                     ELSE [exists |-> TRUE, labelled |-> TRUE, value |-> v]]}

MCContents ==
  {Absent, [exists |-> TRUE, labelled |-> FALSE, value |-> None],
   [exists |-> TRUE, labelled |-> TRUE, value |-> v],
   [exists |-> TRUE, labelled |-> TRUE, value |-> bad]}

MCEdited == Objects \ {<<"Secret", b>>}

MCSpecs == GoodSpecs \cup WrongSpecs

=============================================================================
