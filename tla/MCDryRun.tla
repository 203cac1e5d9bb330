------------------------------ MODULE MCDryRun ------------------------------
EXTENDS DryRun

\* One URL per plugin, one nobody recognises, and one that names two systems.
MCUrls == {{Plugins[i]} : i \in DOMAIN Plugins} \cup {{}, {"lever", "ashby"}}
=============================================================================
