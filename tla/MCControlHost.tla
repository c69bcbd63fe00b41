---- MODULE MCControlHost ----
\* Three commands, two at a time, over two contents of a profile that share a
\* name.
EXTENDS ControlHost, TLC
CONSTANTS a, b, i1, i2, i3, r1, r2

Request(cmd, p, id, skip) ==
    [cmd |-> cmd, profile |-> p, explicit |-> id, skip |-> skip]

MCSharedName == [p \in {a, b} |-> "n"]
MCSharedIds == [n \in {"n"} |-> <<r1, r2>>]
MCSharedRequests ==
    {Request(cmd, a, NoRun, {}) :
        cmd \in {"indexes", "stop", "consolidate", "cleanup", "drop"}}
    \cup {Request("run", a, NoRun, {"schema", "load", "check_after_import"})}
    \cup {Request(cmd, b, r1, {}) : cmd \in {"plan", "consolidate"}}
    \cup {Request("consolidate_force", b, NoRun, {})}

MCSymmetry == Permutations({i1, i2, i3})
====
