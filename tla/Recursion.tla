----------------------------- MODULE Recursion -----------------------------
(***************************************************************************)
(* Recursive functions f[d \in Dom] == Body(f, d) whose calls are for      *)
(* arguments that come before d in a well-founded order.  A module that    *)
(* defines one instantiates this one with its domain, its order, its body, *)
(* and what is Good of its results, and learns that the function satisfies *)
(* its equation and that its results are good.                             *)
(***************************************************************************)

CONSTANTS Dom, Before(_, _), Body(_, _), Good(_, _)

\* Any set of arguments has a first one, and the order is transitive; the body
\* gives a good result if the arguments before have good results; and it
\* depends on nothing but those.
Recursive ==
  /\ \A T \in SUBSET Dom : T # {} => \E d \in T : \A e \in T : ~Before(e, d)
  /\ \A c, d, e \in Dom : Before(c, d) /\ Before(d, e) => Before(c, e)
  /\ \A f : \A d \in Dom :
       (\A e \in Dom : Before(e, d) => Good(e, f[e])) => Good(d, Body(f, d))
  /\ \A f, g : \A d \in Dom :
       (\A e \in Dom : Before(e, d) => f[e] = g[e] /\ Good(e, f[e]))
         => Body(f, d) = Body(g, d)

----------------------------------------------------------------------------

\* The recursion ends: some function satisfies the equation, put together from
\* those that satisfy it up to some argument, and the results of any function
\* that satisfies it are good.
THEOREM Solution ==
  ASSUME Recursive
  PROVE  /\ \E f : f = [d \in Dom |-> Body(f, d)]
         /\ \A f : f = [d \in Dom |-> Body(f, d)]
                     => \A d \in Dom : f[d] = Body(f, d) /\ Good(d, f[d])
<1> DEFINE Below(d) == {e \in Dom : e = d \/ Before(e, d)}
           Upto(f, d) == f = [e \in Below(d) |-> Body(f, e)]
\* Induction: a set that has an argument whenever it has all those before it
\* has them all.
<1>1. ASSUME NEW S, \A d \in Dom : (\A e \in Dom : Before(e, d) => e \in S) => d \in S
      PROVE  \A d \in Dom : d \in S
  <2> SUFFICES ASSUME NEW d \in Dom, d \notin S PROVE FALSE
    OBVIOUS
  <2> DEFINE T == Dom \ S
  <2>1. T \in SUBSET Dom /\ T # {}
    OBVIOUS
  <2>2. PICK c \in T : \A e \in T : ~Before(e, c)
    <3> HIDE DEF T
    <3> QED  BY <2>1 DEF Recursive
  <2> QED
    BY <1>1, <2>2
\* What satisfies the equation up to an argument has good results there ...
<1>2. ASSUME NEW d \in Dom, NEW f, Upto(f, d) PROVE \A e \in Below(d) : Good(e, f[e])
  <2> DEFINE S == {e \in Dom : e \in Below(d) => Good(e, f[e])}
  <2>1. ASSUME NEW e \in Dom, \A c \in Dom : Before(c, e) => c \in S PROVE e \in S
    <3> SUFFICES ASSUME e \in Below(d) PROVE Good(e, f[e])
      OBVIOUS
    <3>1. f[e] = Body(f, e)
      BY <1>2
    <3>2. ASSUME NEW c \in Dom, Before(c, e) PROVE Good(c, f[c])
      <4>1. c \in Below(d)
        BY <3>2 DEF Recursive
      <4> QED  BY <2>1, <3>2, <4>1
    <3> QED  BY <3>1, <3>2 DEF Recursive
  <2>2. \A e \in Dom : e \in S
    <3> HIDE DEF S
    <3> QED  BY <1>1, <2>1
  <2> QED
    BY <2>2
\* ... and two of them agree where both do.
<1>3. ASSUME NEW c \in Dom, NEW f, Upto(f, c), NEW d \in Dom, NEW g, Upto(g, d)
      PROVE  \A e \in Dom : e \in Below(c) /\ e \in Below(d) => f[e] = g[e]
  <2> DEFINE S == {e \in Dom : e \in Below(c) /\ e \in Below(d) => f[e] = g[e]}
  <2>0. \A e \in Below(c) : Good(e, f[e])
    BY <1>2, <1>3
  <2>1. ASSUME NEW e \in Dom, \A b \in Dom : Before(b, e) => b \in S PROVE e \in S
    <3> SUFFICES ASSUME e \in Below(c), e \in Below(d) PROVE f[e] = g[e]
      OBVIOUS
    <3>1. f[e] = Body(f, e) /\ g[e] = Body(g, e)
      BY <1>3
    <3>2. ASSUME NEW b \in Dom, Before(b, e) PROVE f[b] = g[b] /\ Good(b, f[b])
      <4>1. b \in Below(c) /\ b \in Below(d)
        BY <3>2 DEF Recursive
      <4> QED  BY <2>0, <2>1, <3>2, <4>1
    <3> QED  BY <3>1, <3>2 DEF Recursive
  <2>2. \A e \in Dom : e \in S
    <3> HIDE DEF S
    <3> QED  BY <1>1, <2>1
  <2> QED
    BY <2>2
<1> DEFINE G(d) == CHOOSE f : Upto(f, d)
           F == [d \in Dom |-> G(d)[d]]
\* If there is one for every argument before e, F is what they agree on.
<1>4. ASSUME NEW e \in Dom, \A c \in Dom : Before(c, e) => Upto(G(c), c),
             NEW g, Upto(g, e)
      PROVE  Body(g, e) = Body(F, e)
  <2>1. \A c \in Below(e) : Good(c, g[c])
    <3> HIDE DEF Upto, Below
    <3> QED  BY <1>2, <1>4
  <2>2. ASSUME NEW c \in Dom, Before(c, e) PROVE g[c] = F[c] /\ Good(c, g[c])
    <3> DEFINE h == G(c)
    <3>1. Upto(h, c)
      BY <1>4, <2>2
    <3>2. c \in Below(c) /\ c \in Below(e)
      BY <2>2
    <3>3. g[c] = h[c]
      <4> HIDE DEF Upto, Below, h
      <4> QED  BY <1>3, <1>4, <3>1, <3>2
    <3> QED  BY <2>1, <3>2, <3>3
  <2> HIDE DEF F
  <2> QED
    BY <2>2 DEF Recursive
\* There is one for every argument.
<1>5. ASSUME NEW d \in Dom PROVE Upto(G(d), d)
  <2> DEFINE S == {e \in Dom : Upto(G(e), e)}
  <2>1. ASSUME NEW e \in Dom, \A c \in Dom : Before(c, e) => c \in S PROVE e \in S
    <3> DEFINE g == [c \in Below(e) |-> Body(F, c)]
    <3>1. ASSUME NEW c \in Dom, Before(c, e) PROVE F[c] = Body(F, c) /\ Good(c, F[c])
      <4> DEFINE h == G(c)
      <4>1. Upto(h, c)
        BY <2>1, <3>1
      <4>2. \A b \in Dom : Before(b, c) => Upto(G(b), b)
        BY <2>1, <3>1 DEF Recursive
      <4>3. c \in Below(c)
        OBVIOUS
      <4>4. Body(h, c) = Body(F, c)
        <5> HIDE DEF Upto, Below, h, F, G
        <5> QED  BY <1>4, <4>1, <4>2
      <4>5. Good(c, h[c])
        <5> HIDE DEF Upto, Below, h
        <5> QED  BY <1>2, <4>1, <4>3
      <4>6. h[c] = Body(h, c)
        <5> HIDE DEF h
        <5> QED  BY <4>1, <4>3
      <4>7. F[c] = h[c]
        OBVIOUS
      <4> QED  BY <4>4, <4>5, <4>6, <4>7
    <3>2. ASSUME NEW c \in Below(e) PROVE Body(F, c) = Body(g, c)
      <4>1. ASSUME NEW b \in Dom, Before(b, c) PROVE F[b] = g[b] /\ Good(b, F[b])
        <5>1. Before(b, e) /\ b \in Below(e)
          BY <3>2, <4>1 DEF Recursive
        <5>2. g[b] = Body(F, b)
          BY <5>1
        <5> HIDE DEF g, F
        <5> QED  BY <3>1, <5>1, <5>2
      <4>2. c \in Dom
        OBVIOUS
      <4> HIDE DEF g, F
      <4> QED  BY <4>1, <4>2 DEF Recursive
    <3>3. Upto(g, e)
      <4> HIDE DEF F
      <4> QED  BY <3>2
    <3>4. Upto(G(e), e)
      <4> HIDE DEF Upto, g
      <4> QED  BY <3>3
    <3> QED  BY <3>4
  <2>2. \A e \in Dom : e \in S
    <3> HIDE DEF S
    <3> QED  BY <1>1, <2>1
  <2> QED
    BY <2>2
<1>6. ASSUME NEW d \in Dom PROVE F[d] = Body(F, d)
  <2> DEFINE h == G(d)
  <2>1. Upto(h, d) /\ \A c \in Dom : Before(c, d) => Upto(G(c), c)
    <3> HIDE DEF Upto, G
    <3> QED  BY <1>5
  <2>2. Body(h, d) = Body(F, d)
    <3> HIDE DEF Upto, h, F, G
    <3> QED  BY <1>4, <2>1
  <2>3. h[d] = Body(h, d)
    <3> HIDE DEF h
    <3> QED  BY <2>1
  <2> QED
    BY <2>2, <2>3
<1>7. F = [d \in Dom |-> Body(F, d)]
  BY <1>6
<1>8. ASSUME NEW f, f = [d \in Dom |-> Body(f, d)]
      PROVE  \A d \in Dom : f[d] = Body(f, d) /\ Good(d, f[d])
  <2>1. \A d \in Dom : f[d] = Body(f, d)
    BY <1>8
  <2> DEFINE S == {d \in Dom : Good(d, f[d])}
  <2>2. ASSUME NEW d \in Dom, \A e \in Dom : Before(e, d) => e \in S PROVE d \in S
    BY <2>1, <2>2 DEF Recursive
  <2>3. \A d \in Dom : d \in S
    <3> HIDE DEF S
    <3> QED  BY <1>1, <2>2
  <2> QED
    BY <2>1, <2>3
<1> QED
  BY <1>7, <1>8
=============================================================================
