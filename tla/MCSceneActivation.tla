-------------------------- MODULE MCSceneActivation --------------------------
EXTENDS SceneActivation

MCTools == {"claude", "codex", "agy"}
MCScenes == {"A", "B"}
MCDeclares == [s \in MCScenes |-> IF s = "A" THEN {"skills", "hooks"}
                                  ELSE {"mcp", "permissions"}]
MCSkillsDir == [t \in MCTools |-> IF t = "claude" THEN ".claude" ELSE ".agents"]
MCMech == [p \in MCTools \X Concerns |->
             CASE p[2] = "skills" -> IF p[1] = "claude" THEN "declare" ELSE "project"
               [] p[2] = "mcp" -> "declare"
               [] p[2] = "hooks" -> "project"
               [] p[2] = "permissions" -> IF p[1] = "claude" THEN "project"
                                          ELSE "unsupported"]
MCSynced == {<<"codex", "hooks">>}
MCFileOf == [p \in MCTools \X Concerns |->
               CASE p[1] = "claude" -> "settings.json"
                 [] p[1] # "claude" /\ p[2] = "mcp" ->
                      IF p[1] = "codex" THEN "config.toml" ELSE "mcp_config.json"
                 [] OTHER -> IF p[1] = "codex" THEN "hooks.json" ELSE "agy_hooks.json"]
=============================================================================
