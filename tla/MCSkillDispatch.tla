--------------------------- MODULE MCSkillDispatch ---------------------------
\* Two versions of two chunks, two uploads, and two requests at a time.
EXTENDS SkillDispatch

CONSTANTS v1, v2, a, b, u

Events(p, i, x, e, d, r, n) ==
    [publishes |-> p, installs |-> i, actions |-> x, edits |-> e, drops |-> d, errors |-> r, devices |-> n]

\* two installs on one device while versions are published; one install on two devices
\* beside a lost connection, an error or an action; errors of two requests; edits
Some == {Events(2, 2, 0, 0, 0, 0, 1), Events(1, 1, 0, 0, 1, 0, 2), Events(1, 1, 0, 0, 0, 1, 2),
         Events(2, 1, 0, 0, 0, 1, 1), Events(1, 2, 0, 0, 0, 1, 1),
         Events(1, 1, 1, 0, 0, 0, 2), Events(1, 1, 0, 2, 0, 0, 1), Events(1, 0, 1, 2, 0, 0, 1)}
One  == {Events(1, 1, 1, 0, 0, 0, 1)}
=============================================================================
