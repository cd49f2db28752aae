CONSTANTS
    Manifests <- MCManifests
    PathManifest <- MCPathManifest
    GitManifest <- MCGitManifest
    Published <- MCPublished
    Uploads <- MCUploads
    Regs = {1}
    MaxCmds = 1
    MaxEnv = 1
SPECIFICATION Spec
INVARIANT RequirementsMet
CHECK_DEADLOCK FALSE
