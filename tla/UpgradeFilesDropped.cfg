SPECIFICATION Spec
CONSTANTS
    Files <- MCFiles
    Shared = "caddyfile"
    Lines <- MCLines
    Keys <- MCKeys
    Render <- MCRender
    RenderKeys <- MCRenderKeys
    Keep = 1
    MaxCommands = 3
    MaxEdits = 1
CHECK_DEADLOCK FALSE
PROPERTY
    HandEditsSurvive
