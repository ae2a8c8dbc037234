------------------------------ MODULE MCLauncher ------------------------------
EXTENDS Launcher

Python(supported, bourne, mcp) == [supported |-> supported, bourne |-> bourne, mcp |-> mcp]

\* No interpreter; one without bourneprov; an old one before one without MCP support; one of
\* another version; the right one second.
MCPythons ==
    {<<>>,
     <<Python(TRUE, "none", FALSE)>>,
     <<Python(FALSE, "exact", TRUE), Python(TRUE, "exact", FALSE)>>,
     <<Python(TRUE, "other", TRUE)>>,
     <<Python(TRUE, "none", TRUE), Python(TRUE, "exact", TRUE)>>}

=============================================================================
