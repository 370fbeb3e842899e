---------------------------- MODULE MCWebRecdata ----------------------------
(* Command sets for model checking WebRecdata.                              *)
EXTENDS WebRecdata

U(key, val) == [key |-> key, val |-> val]
Stick(cells) == {U("rocker", 100 * x + y) : x \in cells, y \in cells}
Launcher == {U(k, 0) : k \in {"blaste", "fireSt", "Pluck1", "luck2P"}}

\* The cells on both sides of every bound the stick's tests use, a value off
\* the grid, the launcher, the stop button, a page load, and gimbal commands.
DriveUrls == Stick({0, 3, 4, 5, 6, 7, 10}) \cup Launcher \cup
               {U("rocker", 1111), U("robott", 0), U("other", 0), U("gimbal", 9)}

\* The four gimbal buttons.
GimbalUrls == {U("gimbal", v) : v \in 0..3}

\* A command with a servo delay and one without.
TimeUrls == {U("gimbal", 1), U("robott", 0)}

\* A drive command and the stop button.
ButtonUrls == {U("rocker", 500), U("robott", 0)}

\* The launcher alone.
LauncherUrls == Launcher
=============================================================================
