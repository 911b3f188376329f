---- MODULE MCSupport ----
EXTENDS Support
TwoDaemonsAndAJob ==
  <<[groups |-> {"dev", "toolforge"}, mode |-> "continuous"],
    [groups |-> {"dev", "toolforge"}, mode |-> "continuous"],
    [groups |-> {"maintenance"}, mode |-> "oneshot"]>>
AnAbsentAndTwoNewItems ==
  <<[priority |-> 2, firsts |-> {}],
    [priority |-> 1, firsts |-> {[at |-> 1, by |-> "a"]}],
    [priority |-> 1, firsts |-> {[at |-> 1, by |-> "b"], [at |-> 2, by |-> "a"]}]>>
====
