----------------------------- MODULE MCLinking -----------------------------
(* Instances of Linking for TLC. *)
EXTENDS Linking

(* Five observations in five buckets: two conversations, a resource and two
   bare events; three resources, two platforms, four actors; 1 and 4 alone
   are within one another's window. *)
Shape(i) ==
  <<[conversation |-> 3, resource |-> 7, event |-> 11,
     actor |-> 1, platform |-> 1, time |-> 0],
    [conversation |-> 0, resource |-> 8, event |-> 12,
     actor |-> 1, platform |-> 1, time |-> 61],
    [conversation |-> 5, resource |-> 7, event |-> 13,
     actor |-> 2, platform |-> 1, time |-> 130],
    [conversation |-> 0, resource |-> 0, event |-> 14,
     actor |-> 3, platform |-> 2, time |-> 60],
    [conversation |-> 0, resource |-> 0, event |-> 2,
     actor |-> 4, platform |-> 2, time |-> 60],
    [conversation |-> 3, resource |-> 9, event |-> 15,
     actor |-> 2, platform |-> 1, time |-> 61]>>[i]

With(i, A) ==
  [conversation |-> Shape(i).conversation, resource |-> Shape(i).resource,
   event |-> Shape(i).event, actor |-> Shape(i).actor,
   platform |-> Shape(i).platform, time |-> Shape(i).time, artifacts |-> A]

(* Which artifacts an observation holds, among three that may link. *)
Some == {{}, {"m"}, {"n"}, {"c"}, {"m", "n"}, {"n", "c"}}

Five ==
  {<<With(1, s), With(2, {"m", "url"}), With(3, t), With(4, u), With(5, v), With(6, {"n", "url"})>> :
    s \in Some, t \in Some, u \in Some, v \in Some}
=============================================================================
