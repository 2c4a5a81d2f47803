------------------------------- MODULE MCPrograms -------------------------------
(* The programs on one host: three registries, of which one has the best         *)
(* priority and not the version, and the others differ in address and priority. *)
(* A program gets two calls or two signals; the NMOS node, with its many ways to *)
(* begin, one of each.                                                           *)
EXTENDS Programs

CONSTANTS c1, c2, s1, s2

MCRegistries == {[pri |-> 0, current |-> FALSE, net |-> "a"],
                 [pri |-> 10, current |-> TRUE, net |-> "a"],
                 [pri |-> 100, current |-> TRUE, net |-> "ipv6"]}

Load(ps, cs, ss) == [programs |-> ps, callers |-> cs, signals |-> ss]
MCLoads == {Load({p \in AllPrograms : ~p.node}, {c1, c2}, {s1}),
            Load({p \in AllPrograms : ~p.node}, {c1}, {s1, s2}),
            Load({p \in AllPrograms : p.node}, {c1}, {s1})}
================================================================================
