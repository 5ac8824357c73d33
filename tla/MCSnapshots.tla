---------------------------- MODULE MCSnapshots ----------------------------
(* Two processes, two names; inodes enough for every path and descriptor.  *)
EXTENDS Snapshots
one == <<"a">>
two == <<"b", "/">>
MCNames == {one, two}
MCFronts == {one}
Both == {{snap(one), side(one)}}
Pinned == {{one}}
Bare == {{}}
=============================================================================
