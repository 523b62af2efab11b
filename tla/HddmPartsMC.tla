------------------------------- MODULE HddmPartsMC -------------------------------
(***************************************************************************)
(* An instance of the components that do not interact with each other at   *)
(* run time, for TLC: a behaviour is one of a single component, which      *)
(* `part' names, and leaves the variables of the others alone.             *)
(***************************************************************************)
EXTENDS RemoteStreambuf, HddmXml, HddmRoot, HddmGenerator, HddmPython, ParticleTables,
        XstreamFilters, TLC

CONSTANTS t1, t2, nobody, v1, v2

VARIABLE part

vars == <<part, remoteVars, matchVars, cVars, xmlVars, rootVars, genVars, pyVars,
          particleVars, filterVars>>

-----------------------------------------------------------------------------
(* Schemas of three tags, for all parts that encode records: each tag has  *)
(* up to three places.  In Clashes a tag has attributes of another size.   *)

TagSet == {"HDDM", "a", "b", "c"}

Schema(h, k, l, x, y) ==
  [sig  |-> [HDDM |-> 0, a |-> 1, b |-> x, c |-> 0],
   many |-> [HDDM |-> FALSE, a |-> TRUE, b |-> y, c |-> TRUE],
   kids |-> [HDDM |-> h, a |-> k, b |-> l, c |-> << >>]]

Shapes == {<< <<"a">>, <<"b">>, <<"c">> >>, << <<"a">>, <<"c", "b">>, << >> >>,
  << <<"b", "a">>, << >>, <<"c">> >>, << <<"a", "b">>, <<"b", "c">>, << >> >>,
  << <<"b", "a">>, <<"c">>, << >> >>}

Sources == {Schema(s[1], s[2], s[3], 1, y) : s \in Shapes, y \in BOOLEAN}

Clashes == {Schema(s[1], s[2], s[3], 2, TRUE) :
  s \in {<< <<"a", "b">>, <<"b", "c">>, << >> >>, << <<"a">>, <<"b">>, <<"c">> >>}}

Writers == {Schema(s[1], s[2], s[3], 1, s[2] # << >>) : s \in Shapes}

PairSet == Writers \X (Writers \cup Clashes
  \cup {Schema(<<"b", "a">>, << >>, <<"c">>, 1, TRUE)})

SizeSet == {<<16, 7>>}

CountSet == {[HDDM |-> 1, a |-> 2, b |-> n[1], c |-> n[2]] : n \in {<<0, 2>>, <<2, 0>>, <<2, 2>>}}

\* The same with types, for the xml tools.
WithTypes(s, x, y) == [sig |-> s.sig, many |-> s.many, kids |-> s.kids,
  type |-> [HDDM |-> "int", a |-> x, b |-> y, c |-> "int"]]

XmlSchemaSet == {WithTypes(Schema(<<"b", "a">>, << >>, <<"c">>, 1, FALSE), "float", "Particle_t"),
  WithTypes(Schema(<<"a", "b">>, <<"b", "c">>, << >>, 1, TRUE), "string", "anyURI"),
  WithTypes(Schema(<<"a">>, <<"b">>, <<"c">>, 2, TRUE), "int", "float")}

AttrNames == [HDDM |-> "x", a |-> "p", b |-> "q", c |-> "r"]


-----------------------------------------------------------------------------
(* Documents for the generators: a tag in two places, with the same or      *)
(* other attributes, repetition and contents.                               *)

Elem(t, x, m, k) == [tag |-> t, attrs |-> x, many |-> m, kids |-> k]

Plain == << >>

Typed == {Plain, [x |-> "int"], [x |-> "float"]}

Leaf(t) == Elem(t, Plain, FALSE, << >>)

Inner == {<< >>, <<Leaf("c")>>, <<Elem("c", [y |-> "int"], FALSE, << >>)>>,
  <<Elem("d", Plain, FALSE, <<Leaf("c")>>)>>, <<Leaf("c"), Leaf("d")>>, <<Leaf("a")>>}

Bs == {Elem("b", x, m, k) : x \in {Plain, [x |-> "int"]}, m \in {FALSE}, k \in Inner}
  \cup {Elem("b", Plain, TRUE, << >>)}

DocSet == {Elem("HDDM", Plain, FALSE, <<Elem("a", x, FALSE, <<b>>), Elem("e", y, TRUE, <<c>>)>>) :
             x \in Typed, y \in {Plain, [x |-> "float"]}, b \in Bs, c \in Bs}
  \cup {Elem("HDDM", x, FALSE, <<b, c, Elem("c", Plain, FALSE, << >>)>>) :
             x \in {Plain, [x |-> "int"]}, b \in Bs, c \in Bs}

-----------------------------------------------------------------------------
Init ==
  /\ part \in {"remote", "match", "c", "xml", "root", "gen", "py", "particles", "filters"}
  /\ RemoteInit /\ MatchInit /\ CInit /\ XmlInit /\ RootInit
  /\ GenInit /\ PyInit /\ ParticleInit /\ FilterInit

Next ==
  \/ /\ part = "remote" /\ RemoteNext
     /\ UNCHANGED <<part, matchVars, cVars, xmlVars, rootVars,
                    genVars, pyVars, particleVars, filterVars>>
  \/ /\ part = "match" /\ MatchNext
     /\ UNCHANGED <<part, remoteVars, cVars, xmlVars, rootVars,
                    genVars, pyVars, particleVars, filterVars>>
  \/ /\ part = "c" /\ CNext
     /\ UNCHANGED <<part, remoteVars, matchVars, xmlVars, rootVars,
                    genVars, pyVars, particleVars, filterVars>>
  \/ /\ part = "xml" /\ XmlNext
     /\ UNCHANGED <<part, remoteVars, matchVars, cVars, rootVars,
                    genVars, pyVars, particleVars, filterVars>>
  \/ /\ part = "root" /\ RootNext
     /\ UNCHANGED <<part, remoteVars, matchVars, cVars, xmlVars,
                    genVars, pyVars, particleVars, filterVars>>
  \/ /\ part = "gen" /\ GenNext
     /\ UNCHANGED <<part, remoteVars, matchVars, cVars, xmlVars,
                    rootVars, pyVars, particleVars, filterVars>>
  \/ /\ part = "py" /\ PyNext
     /\ UNCHANGED <<part, remoteVars, matchVars, cVars, xmlVars,
                    rootVars, genVars, particleVars, filterVars>>
  \/ /\ part = "particles" /\ ParticleNext
     /\ UNCHANGED <<part, remoteVars, matchVars, cVars, xmlVars,
                    rootVars, genVars, pyVars, filterVars>>
  \/ /\ part = "filters" /\ FilterNext
     /\ UNCHANGED <<part, remoteVars, matchVars, cVars, xmlVars,
                    rootVars, genVars, pyVars, particleVars>>

Spec == Init /\ [][Next]_vars /\ RemoteFairness

PartsTypeOK ==
  /\ RemoteTypeOK /\ MatchTypeOK /\ CTypeOK /\ XmlTypeOK /\ RootTypeOK
  /\ GenTypeOK /\ PyTypeOK /\ ParticleTypeOK /\ FilterTypeOK
================================================================================
