------------------------------- MODULE MCNews -------------------------------
EXTENDS News

CONSTANTS s1, s2, x1, y1, z1, x2, y2

MCSources  == {s1, s2}
MCArticles == {x1, y1, z1, x2, y2}
MCSourceOf == x1 :> s1 @@ y1 :> s1 @@ z1 :> s1 @@ x2 :> s2 @@ y2 :> s2

\* x2 is the article x1 under the same URL, y2 a syndicated y1 under another.
MCUrlOf    == x1 :> "x" @@ y1 :> "y1" @@ z1 :> "z1" @@ x2 :> "x" @@ y2 :> "y2"
MCTitleOf  == x1 :> "rally" @@ y1 :> "hack" @@ z1 :> "odd" @@ x2 :> "rally" @@ y2 :> "hack"

\* Both stories are one event.
MCAlike    == {"rally", "hack"} \X {"rally", "hack"}
MCEarly    == {x1, y1, z1, x2}

\* z1 has no date; s2 is read page by page.
MCUsable   == MCArticles \ {z1}
MCPaged    == {s2}
MCPriority == s1 :> 1 @@ s2 :> 2
=============================================================================
